---- MODULE Spec2Model ----
(***************************************************************************)
(* The micro-pipeline of skycluster-apps: the processor's /process         *)
(* handler (lock:job:<id> claim, status writes, forward to the aggregator, *)
(* lock release) and the aggregator's /finalize handler (duplicate check,  *)
(* persist, finished write, publish), sharing one Redis store.             *)
(*                                                                         *)
(* Every Redis call, file write and HTTP hop of a handler is one atomic    *)
(* step; the local computation that follows a call (decoding, size checks, *)
(* the image transform) is part of the same step.  A call's result is an   *)
(* input of the step: "ok" or the exception class it raises.               *)
(*                                                                         *)
(* The redis-app of the same repository is modelled beside it: the         *)
(* gateway's create_job, the worker's main loop with its process pool and  *)
(* _drain_completed_futures, and the read-only endpoints of the gateway    *)
(* and the backend, sharing a second Redis store.  The summarizer's        *)
(* poller (poll_and_update, histogram_percentile) and the pipeline         *)
(* producer's loop (produce_once) have specifications of their own.        *)
(***************************************************************************)
EXTENDS Integers, Sequences, FiniteSets, TLC

\* ---------------------------------------------------------------- bounds
MaxJobs == 1
MaxProc == 2
MaxTicks == 1
MaxSubmits == 2
MaxWorkers == 2
MaxCount == 2
MaxErrors == 2
MaxBacklog == 3

\* ------------------------------------------------------ program constants
LOCK_TTL == 30
CLAIM_TTL == 60
WORKERS_PER_POD == 2
POLL_INTERVAL == 10
MAX_FETCH_BYTES == 10 * 1024 * 1024
MAX_INPUT_BYTES == 10 * 1024 * 1024
MAX_RESULT_BYTES == 50 * 1024 * 1024
JOBS_DIR == "jobs"

Jobs == 1 .. MaxJobs
PReqs == 1 .. MaxProc
\* Every /process request forwards at most once, so the aggregator serves as
\* many /finalize requests as the processor serves /process requests.
FReqs == 1 .. MaxProc

\* What a Redis call can do: answer, or raise one of the classes the
\* handlers tell apart.
StoreOk == {"ok"}
StoreAny == {"ok", "ConnectionError", "RedisError", "Exception"}

\* What the POST to the aggregator can do.
PostOk == {"ok"}
PostAny == {"ok", "ConnectionError", "RequestException"}

\* What open(path, "wb") / write can do.
FileOk == {"ok"}
FileAny == {"ok", "OSError"}

VARIABLES
    now,        \* time.time(), in seconds
    lock,       \* lock[j]: {} when lock:job:<j> is absent, else {expiry time}
    hash,       \* hash[j]: the fields of job:<j>, each {} (absent) or {value}
    files,      \* files[j]: {} or {bytes written to JOBS_DIR/<j>.png}
    published,  \* jobs whose job:<j>:finished notification was published
    preq,       \* the /process requests
    freq,       \* the /finalize requests
    claimed,    \* claimed[j]: {} when job:<j>:claimed is absent, else {expiry time}
    prod,       \* the producer's main loop
    queue,      \* redis-app: the list jobs_queue, head first
    jobs,       \* redis-app: jobs[j]: the fields of job:<j>, each {} or {value}
    gw,         \* redis-app: the POST /jobs requests, by the uuid they generate
    wk,         \* redis-app: the workers' main processes
    pool,       \* redis-app: pool[w][j]: the future of job j in worker w's pool
    rd,         \* redis-app: the client of the read-only endpoints
    sm          \* redis-app: the summarizer's poller thread, _state and metrics

\* The state of the micro-pipeline without the clock, and of the redis-app.
pipe == <<lock, hash, files, published, preq, freq, claimed, prod>>
app == <<queue, jobs, gw, wk, pool, rd, sm>>

vars == <<now, lock, hash, files, published, preq, freq, claimed, prod, app>>

\* ---------------------------------------------------------------- values
Resp(code, body) == [code |-> code, body |-> body, warn |-> FALSE]
NoResp == Resp(0, "")

NoFields == [status |-> {}, processed_at |-> {}, result_path |-> {}, finished_at |-> {}]

\* os.path.join(JOBS_DIR, f"{job_id}.png")
PathOf(j) == <<JOBS_DIR, j, "png">>

\* The request body of /process: json is FALSE when the body does not parse;
\* job is 0 when job_id is missing or empty; b64 is "" when image_b64 is
\* missing or empty, "bad" when it does not decode; size is the number of
\* decoded bytes; pil says what PIL does with the bytes.
ImgBody(json, job, b64, size, pil) ==
    [json |-> json, job |-> job, b64 |-> b64, size |-> size, pil |-> pil]

\* The request body of /finalize; data names the bytes.
FinBody(json, job, b64, size, data) ==
    [json |-> json, job |-> job, b64 |-> b64, size |-> size, data |-> data]

NoBody == ImgBody(FALSE, 0, "", 0, "")
NoFinBody == FinBody(FALSE, 0, "", 0, "")

\* The processed bytes of a valid image: PNG of the grayscale half-size
\* picture.  A PNG file is never empty.
ProcessedOf(body) == FinBody(TRUE, body.job, "ok", 1, "png")

\* got: when the lock was acquired; fin: the /finalize request the forward
\* became; released: the finally block's delete was answered.
IdleP == [pc |-> "idle", body |-> NoBody, resp |-> NoResp, got |-> {}, fin |-> {},
          released |-> FALSE]
IdleF == [pc |-> "idle", body |-> NoFinBody, resp |-> NoResp,
          redis_update_failed |-> FALSE]

\* pc: where produce_once stands; job: the uuid of this iteration; req: the
\* /process request the post became; ret: what the last iteration returned;
\* made: the uuids generated so far; errors: the counter PRODUCER_ERRORS.
IdleProd == [pc |-> "start", job |-> 0, req |-> {}, ret |-> "", made |-> {},
             errors |-> 0]

\* The uuids create_job generates, the worker pods, and the results of a
\* Redis call of the redis-app, whose callers tell no exception classes
\* apart.
WJobs == 1 .. MaxSubmits
\* The uuids of a backlog larger than the pool of one worker; the Store, the
\* gateway and the pools are defined over these, and WJobs is the part of
\* them that the gateway generates where no backlog is needed.
Backlog == 1 .. MaxBacklog
Workers == 1 .. MaxWorkers
CallOk == {"ok"}
CallAny == {"ok", "RedisError"}

\* job:<id> before any write: HGETALL returns {} and EXISTS 0.
NoMeta == [status |-> {}, created_at |-> {}, payload |-> {}, started_at |-> {},
           finished_at |-> {}, result |-> {}, error |-> {}]

\* pc: the next Redis call of create_job; created_at: the time put in
\* job_meta; resp: 0 before the response, then the HTTP status.
IdleG == [pc |-> "hset", created_at |-> {}, resp |-> 0]

\* pc: the next Redis call of main_loop; job: the id popped; created_at: the
\* value read from the hash; fmap: the job ids in futures_map; todo: the
\* done_futures still to handle; cur: the job whose failure is being
\* recorded; in_flight: the gauge IN_FLIGHT; last: how the last call ended.
IdleW == [pc |-> "brpop", job |-> 0, created_at |-> {}, fmap |-> {}, todo |-> {},
          cur |-> 0, in_flight |-> 0, last |-> "ok"]

\* svc: the service asked; job: the id asked for; code: the HTTP status of
\* the last response; ret: its body.
IdleR == [pc |-> "idle", svc |-> "", job |-> 0, code |-> 0, ret |-> {}]

\* The quantiles poll_and_update asks for, in hundredths.
Quantiles == {50, 90, 99}

\* A rate: delta / interval, kept as the exact fraction; 0.0 is 0 / 1.
Rate(delta, interval) == [num |-> delta, den |-> interval]
NoRate == Rate(0, 1)

\* The samples parse_metrics_text returns for the two counters and the two
\* histograms poll_and_update reads, each a sequence, empty when the metric
\* is not exported: enqueued and processed are the values of the counters,
\* buckets the (le, value) pairs of <base>_bucket, count the values of
\* <base>_count.
Samples(buckets, count) == [buckets |-> buckets, count |-> count]
Metrics(enqueued, processed, e2e, proc) ==
    [enqueued |-> enqueued, processed |-> processed, e2e |-> e2e, proc |-> proc]
NoMetrics == Metrics(<<>>, <<>>, Samples(<<>>, <<>>), Samples(<<>>, <<>>))

\* pc: "poll" before poll_and_update, "sleep" before time.sleep; the three
\* entries of _state that are ever assigned, None being {}; the counters and
\* gauges the summarizer exports (0 until set); metrics: what the last
\* successful poll parsed.
IdleS == [pc |-> "poll",
          last_enqueued |-> {}, last_processed |-> {}, last_poll_time |-> {},
          poll_errors |-> 0, last_poll_ts |-> 0, queue_length |-> 0,
          enqueued_total |-> 0, processed_total |-> 0,
          enqueue_rate |-> NoRate, process_rate |-> NoRate,
          metrics |-> NoMetrics,
          e2e_p |-> [q \in Quantiles |-> 0], proc_p |-> [q \in Quantiles |-> 0]]

\* A key set with EX is gone once its expiry time is reached.
LockHeld(j) == \E t \in lock[j] : now < t

Init ==
    /\ now = 0
    /\ lock = [j \in Jobs |-> {}]
    /\ hash = [j \in Jobs |-> NoFields]
    /\ files = [j \in Jobs |-> {}]
    /\ published = {}
    /\ preq = [p \in PReqs |-> IdleP]
    /\ freq = [f \in FReqs |-> IdleF]
    /\ claimed = [j \in Jobs |-> {}]
    /\ prod = IdleProd
    /\ queue = <<>>
    /\ jobs = [j \in Backlog |-> NoMeta]
    /\ gw = [j \in Backlog |-> IdleG]
    /\ wk = [w \in Workers |-> IdleW]
    /\ pool = [w \in Workers |-> [j \in Backlog |-> "none"]]
    /\ rd = IdleR
    /\ sm = IdleS

\* r.hset(key, field, value) / r.hset(key, mapping=...): sets the given
\* fields and leaves the others; nothing is written when the call raises.
HSet(j, res, m) ==
    IF res = "ok"
    THEN [hash EXCEPT ![j] = [k \in DOMAIN NoFields |->
                                IF k \in DOMAIN m THEN {m[k]} ELSE hash[j][k]]]
    ELSE hash

\* ------------------------------------------------------------- /process
\* Lines 160-178: the body is parsed and checked before any Redis call.
process_receive(p, body) ==
    /\ preq[p].pc = "idle"
    /\ \A q \in PReqs : q < p => preq[q].pc # "idle"
    /\ preq' = [preq EXCEPT ![p] =
         IF ~body.json
         THEN [IdleP EXCEPT !.pc = "done", !.body = body, !.resp = Resp(400, "invalid_json")]
         ELSE IF body.job = 0 \/ body.b64 = ""
         THEN [IdleP EXCEPT !.pc = "done", !.body = body,
                            !.resp = Resp(400, "missing_job_id_or_image_b64")]
         ELSE [IdleP EXCEPT !.pc = "claim", !.body = body]]

\* SET without nx=True: the key is written whether or not it exists.
SetNX_NoNX(j) == TRUE

\* r.set(f"lock:job:{job_id}", "proc", nx=True, ex=30): the value it returns.
SetNX(j) == ~LockHeld(j)

\* The 409 return placed inside the try block, so that the finally block of
\* the request that lost the claim deletes the winner's key.
process_claim_409_in_try(p, res) ==
    /\ preq[p].pc = "claim"
    /\ LET j == preq[p].body.job
           got == res = "ok" /\ SetNX(j)
       IN /\ lock' = IF got THEN [lock EXCEPT ![j] = {now + LOCK_TTL}] ELSE lock
          /\ preq' = [preq EXCEPT ![p] =
               IF res # "ok"
               THEN [@ EXCEPT !.pc = "done", !.resp = Resp(503, "redis_unavailable")]
               ELSE IF ~got
               THEN [@ EXCEPT !.pc = "finally", !.resp = Resp(409, "already_processing")]
               ELSE [@ EXCEPT !.pc = "set_processing", !.got = {now}]]
    /\ UNCHANGED <<now, hash, files, published, freq, claimed, prod, app>>

\* Lines 180-203.
process_claim(p, res) ==
    /\ preq[p].pc = "claim"
    /\ LET j == preq[p].body.job
           got == res = "ok" /\ SetNX(j)
       IN /\ lock' = IF got THEN [lock EXCEPT ![j] = {now + LOCK_TTL}] ELSE lock
          /\ preq' = [preq EXCEPT ![p] =
               IF res = "ConnectionError"
               THEN [@ EXCEPT !.pc = "done", !.resp = Resp(503, "redis_unavailable")]
               ELSE IF res = "RedisError"
               THEN [@ EXCEPT !.pc = "done", !.resp = Resp(503, "redis_error")]
               ELSE IF res # "ok"
               THEN [@ EXCEPT !.pc = "done", !.resp = Resp(500, "internal_error")]
               ELSE IF ~got
               THEN [@ EXCEPT !.pc = "done", !.resp = Resp(409, "already_processing")]
               ELSE [@ EXCEPT !.pc = "set_processing", !.got = {now}]]
    /\ UNCHANGED <<now, hash, files, published, freq, claimed, prod, app>>

\* Lines 214-268: what decoding, the size checks and the transform return;
\* NoResp when the processed bytes are ready.
WorkResult(body) ==
    IF body.b64 = "bad" THEN Resp(400, "invalid_image_b64")
    ELSE IF body.size = 0 THEN Resp(400, "empty_image_payload")
    ELSE IF body.size > MAX_INPUT_BYTES THEN Resp(413, "payload_too_large")
    ELSE IF body.pil \in {"UnidentifiedImageError", "OSError"}
    THEN Resp(400, "invalid_image_data")
    ELSE IF body.pil \in {"convert", "save"} THEN Resp(500, "processing_error")
    ELSE NoResp

\* The error returns of the local work placed before the try block, so that
\* they skip the finally block.
process_set_processing_no_finally(p, res) ==
    /\ preq[p].pc = "set_processing"
    /\ LET j == preq[p].body.job
           w == WorkResult(preq[p].body)
       IN /\ hash' = HSet(j, res, [status |-> "processing"])
          /\ preq' = [preq EXCEPT ![p] =
               IF w = NoResp THEN [@ EXCEPT !.pc = "set_processed"]
               ELSE [@ EXCEPT !.pc = "done", !.resp = w]]
    /\ UNCHANGED <<now, lock, files, published, freq, claimed, prod, app>>

\* Lines 205-268: the best-effort status write, then the local work.
process_set_processing(p, res) ==
    /\ preq[p].pc = "set_processing"
    /\ LET j == preq[p].body.job
           w == WorkResult(preq[p].body)
       IN /\ hash' = HSet(j, res, [status |-> "processing"])
          /\ preq' = [preq EXCEPT ![p] =
               IF w = NoResp THEN [@ EXCEPT !.pc = "set_processed"]
               ELSE [@ EXCEPT !.pc = "finally", !.resp = w]]
    /\ UNCHANGED <<now, lock, files, published, freq, claimed, prod, app>>

\* Lines 275-280.
process_set_processed(p, res) ==
    /\ preq[p].pc = "set_processed"
    /\ hash' = HSet(preq[p].body.job, res,
                    [status |-> "processed", processed_at |-> now])
    /\ preq' = [preq EXCEPT ![p].pc = "send"]
    /\ UNCHANGED <<now, lock, files, published, freq, claimed, prod, app>>

\* Lines 148-168 of the aggregator: the body is parsed and checked before
\* any Redis call.
finalize_receive(f, body) ==
    /\ freq[f].pc = "idle"
    /\ \A g \in FReqs : g < f => freq[g].pc # "idle"
    /\ freq' = [freq EXCEPT ![f] =
         IF ~body.json
         THEN [IdleF EXCEPT !.pc = "done", !.body = body, !.resp = Resp(400, "invalid_json")]
         ELSE IF body.job = 0 \/ body.b64 = ""
         THEN [IdleF EXCEPT !.pc = "done", !.body = body,
                            !.resp = Resp(400, "missing_job_id_or_processed_b64")]
         ELSE [IdleF EXCEPT !.pc = "read", !.body = body]]

\* A failed forward recorded on the Job hash as status failed.
process_send_marks_failed(p, f, res) ==
    /\ preq[p].pc = "send"
    /\ IF res = "ok"
       THEN /\ finalize_receive(f, ProcessedOf(preq[p].body))
            /\ preq' = [preq EXCEPT ![p].pc = "await", ![p].fin = {f}]
            /\ UNCHANGED hash
       ELSE /\ preq' = [preq EXCEPT ![p].pc = "finally", ![p].resp =
                 IF res = "ConnectionError" THEN Resp(503, "aggregator_unreachable")
                 ELSE Resp(502, "aggregator_error")]
            /\ hash' = HSet(preq[p].body.job, "ok", [status |-> "failed"])
            /\ UNCHANGED freq
    /\ UNCHANGED <<now, lock, files, published, claimed, prod, app>>

\* The processed image reported as sent without being posted.
process_send_not_posted(p, f, res) ==
    /\ preq[p].pc = "send"
    /\ preq' = [preq EXCEPT ![p].pc = "finally",
                            ![p].resp = Resp(200, "sent_to_aggregator")]
    /\ UNCHANGED <<now, lock, hash, files, published, freq, claimed, prod, app>>

\* Lines 282-326: requests.post(AGGREGATOR_URL, json=payload, timeout=30).
\* The request reaches the aggregator (a free /finalize request f takes it)
\* or the post raises.
process_send(p, f, res) ==
    /\ preq[p].pc = "send"
    /\ IF res = "ok"
       THEN /\ finalize_receive(f, ProcessedOf(preq[p].body))
            /\ preq' = [preq EXCEPT ![p].pc = "await", ![p].fin = {f}]
       ELSE /\ preq' = [preq EXCEPT ![p].pc = "finally", ![p].resp =
                 IF res = "ConnectionError" THEN Resp(503, "aggregator_unreachable")
                 ELSE Resp(502, "aggregator_error")]
            /\ UNCHANGED freq
    /\ UNCHANGED <<now, lock, hash, files, published, claimed, prod, app>>

\* Lines 286-334: the aggregator's response arrived, whatever its status
\* code; a status >= 500 is only counted.
process_response(p) ==
    /\ preq[p].pc = "await"
    /\ \E f \in preq[p].fin : freq[f].pc = "done"
    /\ preq' = [preq EXCEPT ![p].pc = "finally",
                            ![p].resp = Resp(200, "sent_to_aggregator")]
    /\ UNCHANGED <<now, lock, hash, files, published, freq, claimed, prod, app>>

\* Lines 315-318: no response within the post's timeout.
process_timeout(p) ==
    /\ preq[p].pc = "await"
    /\ preq' = [preq EXCEPT ![p].pc = "finally",
                            ![p].resp = Resp(504, "aggregator_timeout")]
    /\ UNCHANGED <<now, lock, hash, files, published, freq, claimed, prod, app>>

\* r.delete(f"lock:job:{job_id}"): the key is removed, whoever set it.
Delete(j, res) == IF res = "ok" THEN [lock EXCEPT ![j] = {}] ELSE lock

\* Lines 340-347: the finally block, then the return.
process_finally(p, res) ==
    /\ preq[p].pc = "finally"
    /\ lock' = Delete(preq[p].body.job, res)
    /\ preq' = [preq EXCEPT ![p].pc = "done", ![p].released = res = "ok"]
    /\ UNCHANGED <<now, hash, files, published, freq, claimed, prod, app>>

\* Lines 336-339: an exception no inner handler catches, anywhere between
\* the claim and the return statement.
process_unhandled(p) ==
    /\ preq[p].pc \in {"set_processing", "set_processed", "send", "await"}
    /\ preq' = [preq EXCEPT ![p].pc = "finally", ![p].resp = Resp(500, "internal_error")]
    /\ UNCHANGED <<now, lock, hash, files, published, freq, claimed, prod, app>>

\* The processor dies between the claim and the finally block.
process_crash(p) ==
    /\ preq[p].pc \in {"set_processing", "set_processed", "send", "await", "finally"}
    /\ preq' = [preq EXCEPT ![p].pc = "crashed"]
    /\ UNCHANGED <<now, lock, hash, files, published, freq, claimed, prod, app>>

\* ------------------------------------------------------------ /finalize
\* The duplicate check left out.
IsFinished_NoCheck(status) == FALSE

\* Line 187: status is bytes and decodes to "finished".
IsFinished(status) == status = {"finished"}

\* Lines 170-191.
finalize_read(f, res) ==
    /\ freq[f].pc = "read"
    /\ LET st == hash[freq[f].body.job].status
       IN freq' = [freq EXCEPT ![f] =
            IF res = "ConnectionError"
            THEN [@ EXCEPT !.pc = "done", !.resp = Resp(503, "redis_unavailable")]
            ELSE IF res = "RedisError"
            THEN [@ EXCEPT !.pc = "done", !.resp = Resp(503, "redis_error")]
            ELSE IF res # "ok"
            THEN [@ EXCEPT !.pc = "done", !.resp = Resp(500, "internal_error")]
            ELSE IF IsFinished(st)
            THEN [@ EXCEPT !.pc = "done", !.resp = Resp(200, "already_finished")]
            ELSE [@ EXCEPT !.pc = "set_finalizing"]]
    /\ UNCHANGED <<now, lock, hash, files, published, preq, claimed, prod, app>>

\* The size check with >= in place of >.
DecodeResult_inclusive(body) ==
    IF body.b64 = "bad" THEN Resp(400, "invalid_base64")
    ELSE IF body.size = 0 THEN Resp(400, "empty_processed_payload")
    ELSE IF body.size >= MAX_RESULT_BYTES THEN Resp(413, "payload_too_large")
    ELSE NoResp

\* Lines 202-221: what decoding and the size checks return; NoResp when the
\* bytes are accepted.
DecodeResult(body) ==
    IF body.b64 = "bad" THEN Resp(400, "invalid_base64")
    ELSE IF body.size = 0 THEN Resp(400, "empty_processed_payload")
    ELSE IF body.size > MAX_RESULT_BYTES THEN Resp(413, "payload_too_large")
    ELSE NoResp

\* Lines 193-221: the best-effort status write, then the decode.
finalize_set_finalizing(f, res) ==
    /\ freq[f].pc = "set_finalizing"
    /\ LET j == freq[f].body.job
           d == DecodeResult(freq[f].body)
       IN /\ hash' = HSet(j, res, [status |-> "finalizing"])
          /\ freq' = [freq EXCEPT ![f] =
               IF d = NoResp THEN [@ EXCEPT !.pc = "persist"]
               ELSE [@ EXCEPT !.pc = "done", !.resp = d]]
    /\ UNCHANGED <<now, lock, files, published, preq, claimed, prod, app>>

\* The file written and the notification sent without the finished write.
finalize_persist_skips_finished(f, res) ==
    /\ freq[f].pc = "persist"
    /\ LET j == freq[f].body.job
       IN IF res = "ok"
          THEN /\ files' = [files EXCEPT ![j] = {freq[f].body.data}]
               /\ freq' = [freq EXCEPT ![f].pc = "publish"]
          ELSE /\ freq' = [freq EXCEPT ![f].pc = "done",
                                       ![f].resp = Resp(500, "file_write_error")]
               /\ UNCHANGED files
    /\ UNCHANGED <<now, lock, hash, published, preq, claimed, prod, app>>

\* Lines 223-232.
finalize_persist(f, res) ==
    /\ freq[f].pc = "persist"
    /\ LET j == freq[f].body.job
       IN IF res = "ok"
          THEN /\ files' = [files EXCEPT ![j] = {freq[f].body.data}]
               /\ freq' = [freq EXCEPT ![f].pc = "set_finished"]
          ELSE /\ freq' = [freq EXCEPT ![f].pc = "done",
                                       ![f].resp = Resp(500, "file_write_error")]
               /\ UNCHANGED files
    /\ UNCHANGED <<now, lock, hash, published, preq, claimed, prod, app>>

\* The finished write without the result reference.
finalize_set_finished_no_path(f, res) ==
    /\ freq[f].pc = "set_finished"
    /\ hash' = HSet(freq[f].body.job, res, [status |-> "finished", finished_at |-> now])
    /\ freq' = [freq EXCEPT ![f].pc = "publish",
                            ![f].redis_update_failed = res # "ok"]
    /\ UNCHANGED <<now, lock, files, published, preq, claimed, prod, app>>

\* Lines 234-249.
finalize_set_finished(f, res) ==
    /\ freq[f].pc = "set_finished"
    /\ LET j == freq[f].body.job
       IN hash' = HSet(j, res, [status |-> "finished", result_path |-> PathOf(j),
                                finished_at |-> now])
    /\ freq' = [freq EXCEPT ![f].pc = "publish",
                            ![f].redis_update_failed = res # "ok"]
    /\ UNCHANGED <<now, lock, files, published, preq, claimed, prod, app>>

\* A failed publish answered with an error.
finalize_publish_fatal(f, res) ==
    /\ freq[f].pc = "publish"
    /\ published' = IF res = "ok" THEN published \cup {freq[f].body.job} ELSE published
    /\ freq' = [freq EXCEPT ![f].pc = "done",
                            ![f].resp = IF res = "ok"
                                        THEN [code |-> 200, body |-> "finished",
                                              warn |-> freq[f].redis_update_failed]
                                        ELSE Resp(500, "publish_error")]
    /\ UNCHANGED <<now, lock, hash, files, preq, claimed, prod, app>>

\* Lines 251-267: the best-effort publish, then the response.
finalize_publish(f, res) ==
    /\ freq[f].pc = "publish"
    /\ published' = IF res = "ok" THEN published \cup {freq[f].body.job} ELSE published
    /\ freq' = [freq EXCEPT ![f].pc = "done",
                            ![f].resp = [code |-> 200, body |-> "finished",
                                         warn |-> freq[f].redis_update_failed]]
    /\ UNCHANGED <<now, lock, hash, files, preq, claimed, prod, app>>

\* ------------------------------------------------------------- producer
\* A key set with EX is gone once its expiry time is reached.
ClaimedHeld(j) == \E t \in claimed[j] : now < t

\* SET without nx=True: the marker is written whether or not it exists.
produce_claim_no_nx(j, res) ==
    /\ prod.pc = "start"
    /\ claimed' = IF res = "ok" THEN [claimed EXCEPT ![j] = {now + CLAIM_TTL}] ELSE claimed
    /\ prod' = IF res # "ok"
               THEN [prod EXCEPT !.job = j, !.made = @ \cup {j}, !.req = {},
                                 !.ret = "redis_error", !.errors = @ + 1]
               ELSE [prod EXCEPT !.job = j, !.made = @ \cup {j}, !.req = {},
                                 !.ret = "", !.pc = "set_queued"]
    /\ UNCHANGED <<now, lock, hash, files, published, preq, freq, app>>

\* Lines 103-126: job_id = str(uuid.uuid4()) is j, then
\* r.set(f"job:{job_id}:claimed", "1", nx=True, ex=60).
produce_claim(j, res) ==
    /\ prod.pc = "start"
    /\ LET ok == res = "ok" /\ ~ClaimedHeld(j)
       IN /\ claimed' = IF ok THEN [claimed EXCEPT ![j] = {now + CLAIM_TTL}] ELSE claimed
          /\ prod' = IF res # "ok"
                     THEN [prod EXCEPT !.job = j, !.made = @ \cup {j}, !.req = {},
                                       !.ret = "redis_error", !.errors = @ + 1]
                     ELSE IF ~ok
                     THEN [prod EXCEPT !.job = j, !.made = @ \cup {j}, !.req = {},
                                       !.ret = "job_already_claimed", !.errors = @ + 1]
                     ELSE [prod EXCEPT !.job = j, !.made = @ \cup {j}, !.req = {},
                                       !.ret = "", !.pc = "set_queued"]
    /\ UNCHANGED <<now, lock, hash, files, published, preq, freq, app>>

\* Lines 134-171: what the fetch returns; img.err is the exception
\* requests.get or raise_for_status raises ("" for none), img.size the
\* number of bytes fetched.  "" when the image is accepted.
FetchResult(img) ==
    IF img.err = "ConnectionError" THEN "fetch_connection_error"
    ELSE IF img.err = "Timeout" THEN "fetch_timeout"
    ELSE IF img.err = "HTTPError" THEN "fetch_http_error"
    ELSE IF img.err = "RequestException" THEN "fetch_error"
    ELSE IF img.err # "" THEN "fetch_exception"
    ELSE IF img.size = 0 THEN "empty_image_fetched"
    ELSE IF img.size > MAX_FETCH_BYTES THEN "fetched_too_large"
    ELSE ""

Fetched(err, size, pil) == [err |-> err, size |-> size, pil |-> pil]

\* Lines 128-175: the best-effort status write, whose failure is counted,
\* then the fetch.
produce_set_queued(res, img) ==
    /\ prod.pc = "set_queued"
    /\ hash' = HSet(prod.job, res, [status |-> "queued"])
    /\ LET e == prod.errors + (IF res = "ok" THEN 0 ELSE 1)
       IN prod' = IF FetchResult(img) = ""
                  THEN [prod EXCEPT !.pc = IF img.pil = "ok" THEN "send" ELSE "send_bad",
                                    !.errors = e]
                  ELSE [prod EXCEPT !.pc = "start", !.ret = FetchResult(img),
                                    !.errors = e + 1]
    /\ UNCHANGED <<now, lock, files, published, preq, freq, claimed, app>>

\* The body produce_once posts: the fetched bytes, base64-encoded.
PostedBody == ImgBody(TRUE, prod.job, "ok", 1,
                      IF prod.pc = "send" THEN "ok" ELSE "UnidentifiedImageError")

\* Lines 173-221: requests.post(PROCESSOR_URL, json=payload, timeout=30).
\* The request reaches the processor (a free /process request p takes it) or
\* the post raises.
produce_send(p, res) ==
    /\ prod.pc \in {"send", "send_bad"}
    /\ IF res = "ok"
       THEN /\ process_receive(p, PostedBody)
            /\ prod' = [prod EXCEPT !.pc = "await", !.req = {p}]
       ELSE /\ prod' = [prod EXCEPT !.pc = "start", !.errors = @ + 1, !.ret =
                 IF res = "ConnectionError" THEN "processor_unreachable"
                 ELSE IF res = "RequestException" THEN "processor_error"
                 ELSE "processor_exception"]
            /\ UNCHANGED preq
    /\ UNCHANGED <<now, lock, hash, files, published, freq, claimed, app>>

\* Lines 178-204: the processor's response arrived; produce_once returns its
\* JSON.
produce_response ==
    /\ prod.pc = "await"
    /\ \E p \in prod.req :
         /\ preq[p].pc = "done"
         /\ prod' = [prod EXCEPT !.pc = "start", !.ret = preq[p].resp.body]
    /\ UNCHANGED <<now, lock, hash, files, published, preq, freq, claimed, app>>

\* The Timeout of the post leaving produce_once and main_loop.
produce_timeout_stops ==
    /\ prod.pc = "await"
    /\ prod' = [prod EXCEPT !.pc = "stopped", !.ret = "processor_timeout"]
    /\ UNCHANGED <<now, lock, hash, files, published, preq, freq, claimed, app>>

\* Lines 210-213: no response within the post's timeout.
produce_timeout ==
    /\ prod.pc = "await"
    /\ prod' = [prod EXCEPT !.pc = "start", !.ret = "processor_timeout",
                            !.errors = @ + 1]
    /\ UNCHANGED <<now, lock, hash, files, published, preq, freq, claimed, app>>

\* Lines 223-226: an exception no inner handler catches, anywhere after the
\* claim.
produce_unhandled ==
    /\ prod.pc \in {"set_queued", "send", "send_bad", "await"}
    /\ prod' = [prod EXCEPT !.pc = "start", !.ret = "exception", !.errors = @ + 1]
    /\ UNCHANGED <<now, lock, hash, files, published, preq, freq, claimed, app>>

\* ------------------------------------------------------ redis-app: gateway
\* r.hset(job_key, mapping=...) of the redis-app.
HSetJob(j, res, m) ==
    IF res = "ok"
    THEN [jobs EXCEPT ![j] = [k \in DOMAIN NoMeta |->
                                IF k \in DOMAIN m THEN {m[k]} ELSE jobs[j][k]]]
    ELSE jobs

\* r.exists(job_key), and the truth of a non-empty HGETALL.
Exists(j) == jobs[j] # NoMeta

\* RPUSH in place of LPUSH: the id becomes the tail of the list.
LPush_tail(q, j) == q \o <<j>>

\* The id pushed twice by one submission.
LPush_twice(q, j) == <<j, j>> \o q

\* r.lpush(QUEUE_KEY, job_id): the id becomes the head of the list.
LPush(q, j) == <<j>> \o q

\* job_meta built without created_at.
create_job_hset_no_created_at(j, res) ==
    /\ gw[j].pc = "hset"
    /\ gw[j].resp = 0
    /\ \A i \in Backlog : i < j => gw[i] # IdleG
    /\ jobs' = HSetJob(j, res, [status |-> "pending", payload |-> "payload"])
    /\ gw' = [gw EXCEPT ![j] =
         IF res = "ok" THEN [@ EXCEPT !.pc = "lpush", !.created_at = {now}]
         ELSE [@ EXCEPT !.pc = "done", !.created_at = {now}, !.resp = 500]]
    /\ UNCHANGED <<now, pipe, queue, wk, pool, rd, sm>>

\* The hash write left for after the push.
create_job_hset_after_push(j, res) ==
    /\ gw[j].pc = "hset"
    /\ gw[j].resp = 0
    /\ \A i \in Backlog : i < j => gw[i] # IdleG
    /\ jobs' = jobs
    /\ gw' = [gw EXCEPT ![j] =
         IF res = "ok" THEN [@ EXCEPT !.pc = "lpush", !.created_at = {now}]
         ELSE [@ EXCEPT !.pc = "done", !.created_at = {now}, !.resp = 500]]
    /\ UNCHANGED <<now, pipe, queue, wk, pool, rd, sm>>

\* Lines 55-66: the uuid j is generated, job_meta built and written.  An
\* exception of the call leaves the handler: the framework answers 500.
create_job_hset(j, res) ==
    /\ gw[j].pc = "hset"
    /\ gw[j].resp = 0
    /\ \A i \in Backlog : i < j => gw[i] # IdleG
    /\ jobs' = HSetJob(j, res, [status |-> "pending", created_at |-> now,
                                payload |-> "payload"])
    /\ gw' = [gw EXCEPT ![j] =
         IF res = "ok" THEN [@ EXCEPT !.pc = "lpush", !.created_at = {now}]
         ELSE [@ EXCEPT !.pc = "done", !.created_at = {now}, !.resp = 500]]
    /\ UNCHANGED <<now, pipe, queue, wk, pool, rd, sm>>

\* Lines 67-72: the push, then the response with the id.
create_job_lpush(j, res) ==
    /\ gw[j].pc = "lpush"
    /\ queue' = IF res = "ok" THEN LPush(queue, j) ELSE queue
    /\ gw' = [gw EXCEPT ![j].pc = "done", ![j].resp = IF res = "ok" THEN 200 ELSE 500]
    /\ UNCHANGED <<now, pipe, jobs, wk, pool, rd, sm>>

\* ------------------------------------------------------- redis-app: worker
\* A drain that waits for every future in the map before handling any.
Done_waits_for_all(w, pl) ==
    IF \A j \in wk[w].fmap : pl[w][j] \in {"ok", "exc"}
    THEN {j \in Backlog : pl[w][j] \in {"ok", "exc"}}
    ELSE {}

\* The futures of worker w that are done: f.done().
Done(w, pl) == {j \in Backlog : pl[w][j] \in {"ok", "exc"}}

\* The pc after a call of _drain_completed_futures that has t left to handle.
AfterDrain(t) == IF t = {} THEN "brpop" ELSE "drain"

\* The timeout on an empty list going straight to the next BRPOP.
brpop_no_drain(w, res) ==
    /\ wk[w].pc = "brpop"
    /\ IF res # "ok" \/ queue = <<>>
       THEN /\ wk' = [wk EXCEPT ![w].last = res]
            /\ UNCHANGED queue
       ELSE /\ wk' = [wk EXCEPT ![w].last = res, ![w].job = queue[Len(queue)],
                                ![w].pc = "hgetall"]
            /\ queue' = SubSeq(queue, 1, Len(queue) - 1)
    /\ UNCHANGED <<now, pipe, jobs, gw, pool, rd, sm>>

\* Lines 104-117: r.brpop(QUEUE_KEY, timeout=5).  The tail of the list is
\* popped; on an empty list the call times out and the completed futures are
\* drained; an exception is logged and the loop goes on.
brpop(w, res) ==
    /\ wk[w].pc = "brpop"
    /\ IF res # "ok"
       THEN /\ wk' = [wk EXCEPT ![w].last = res]
            /\ UNCHANGED queue
       ELSE IF queue = <<>>
       THEN /\ wk' = [wk EXCEPT ![w].last = res, ![w].todo = Done(w, pool),
                                ![w].pc = AfterDrain(Done(w, pool))]
            /\ UNCHANGED queue
       ELSE /\ wk' = [wk EXCEPT ![w].last = res, ![w].job = queue[Len(queue)],
                                ![w].pc = "hgetall"]
            /\ queue' = SubSeq(queue, 1, Len(queue) - 1)
    /\ UNCHANGED <<now, pipe, jobs, gw, pool, rd, sm>>

\* Lines 119-125: r.hgetall(job_key); an empty hash is skipped.
hgetall(w, res) ==
    /\ wk[w].pc = "hgetall"
    /\ wk' = [wk EXCEPT ![w] =
         IF res = "ok" /\ Exists(wk[w].job)
         THEN [@ EXCEPT !.last = res, !.pc = "hset_processing",
                        !.created_at = jobs[wk[w].job].created_at]
         ELSE [@ EXCEPT !.last = res, !.pc = "brpop", !.job = 0]]
    /\ UNCHANGED <<now, pipe, queue, jobs, gw, pool, rd, sm>>

\* pool.submit: the task runs at once when a subprocess is free and waits in
\* the pool's queue otherwise.
Submit(w, j) ==
    [pool EXCEPT ![w][j] =
        IF Cardinality({i \in Backlog : pool[w][i] = "running"}) < WORKERS_PER_POD
        THEN "running" ELSE "queued"]

\* The gauge incremented before the submission instead of after it, so that
\* a submission that raises leaves it incremented.
hset_processing_inc_first(w, res, sub) ==
    /\ wk[w].pc = "hset_processing"
    /\ LET j == wk[w].job
       IN /\ jobs' = HSetJob(j, res, [status |-> "processing", started_at |-> now])
          /\ IF res = "ok" /\ sub = "ok"
             THEN /\ pool' = Submit(w, j)
                  /\ wk' = [wk EXCEPT ![w] =
                       [@ EXCEPT !.last = res, !.job = 0, !.created_at = {},
                                 !.fmap = @ \cup {j},
                                 !.in_flight = @ + 1,
                                 !.todo = Done(w, pool),
                                 !.pc = AfterDrain(Done(w, pool))]]
             ELSE /\ wk' = [wk EXCEPT ![w] =
                       [@ EXCEPT !.last = IF res = "ok" THEN sub ELSE res,
                                 !.in_flight = IF res = "ok" THEN @ + 1 ELSE @,
                                 !.job = 0, !.created_at = {}, !.pc = "brpop"]]
                  /\ UNCHANGED pool
    /\ UNCHANGED <<now, pipe, queue, gw, rd, sm>>

\* Lines 126-143: the status write, the submission (sub: how pool.submit
\* ended), the gauge, the map entry, then the drain of the completed
\* futures.  An exception of the write or of the submission is logged and
\* the loop goes on.
hset_processing(w, res, sub) ==
    /\ wk[w].pc = "hset_processing"
    /\ LET j == wk[w].job
       IN /\ jobs' = HSetJob(j, res, [status |-> "processing", started_at |-> now])
          /\ IF res = "ok" /\ sub = "ok"
             THEN /\ pool' = Submit(w, j)
                  /\ wk' = [wk EXCEPT ![w] =
                       [@ EXCEPT !.last = res, !.job = 0, !.created_at = {},
                                 !.fmap = @ \cup {j},
                                 !.in_flight = @ + 1,
                                 !.todo = Done(w, pool),
                                 !.pc = AfterDrain(Done(w, pool))]]
             ELSE /\ wk' = [wk EXCEPT ![w] =
                       [@ EXCEPT !.last = IF res = "ok" THEN sub ELSE res,
                                 !.job = 0, !.created_at = {}, !.pc = "brpop"]]
                  /\ UNCHANGED pool
    /\ UNCHANGED <<now, pipe, queue, gw, rd, sm>>

\* worker_task in a subprocess returns (out = "ok") or raises (out = "exc");
\* the subprocess then takes a task that waits, if there is one.
task_finish(w, j, out) ==
    /\ pool[w][j] = "running"
    /\ LET waiting == {i \in Backlog : pool[w][i] = "queued"}
       IN \E n \in (IF waiting = {} THEN {0} ELSE waiting) :
            pool' = [pool EXCEPT ![w] =
               [i \in Backlog |-> IF i = j THEN out
                                ELSE IF i = n THEN "running" ELSE pool[w][i]]]
    /\ UNCHANGED <<now, pipe, queue, jobs, gw, wk, rd, sm>>

\* The gauge decremented in the try and except bodies instead of the
\* finally block, so that a failed write skips it.
drain_one_dec_in_try(w, j, res) ==
    /\ wk[w].pc = "drain"
    /\ j \in wk[w].todo
    /\ pool' = [pool EXCEPT ![w][j] = "none"]
    /\ IF pool[w][j] = "ok"
       THEN /\ jobs' = HSetJob(j, res, [status |-> "done", finished_at |-> now,
                                        result |-> "result"])
            /\ wk' = [wk EXCEPT ![w] =
                 IF res = "ok"
                 THEN [@ EXCEPT !.last = res, !.fmap = @ \ {j}, !.todo = @ \ {j},
                                !.in_flight = @ - 1,
                                !.pc = AfterDrain(wk[w].todo \ {j})]
                 ELSE [@ EXCEPT !.last = res, !.fmap = @ \ {j}, !.todo = @ \ {j},
                                !.cur = j, !.pc = "mark_failed"]]
       ELSE /\ jobs' = HSetJob(j, res, [status |-> "failed", error |-> "work_error"])
            /\ wk' = [wk EXCEPT ![w] =
                 IF res = "ok"
                 THEN [@ EXCEPT !.last = res, !.fmap = @ \ {j}, !.todo = @ \ {j},
                                !.in_flight = @ - 1,
                                !.pc = AfterDrain(wk[w].todo \ {j})]
                 ELSE [@ EXCEPT !.last = res, !.fmap = @ \ {j}, !.todo = {},
                                !.pc = "brpop"]]
    /\ UNCHANGED <<now, pipe, queue, gw, rd, sm>>

\* Lines 151-183 for one completed future: it is popped from the map; on a
\* result the job is written done (and the metrics updated); on an exception
\* of the task the job is written failed with str(exc); the finally block
\* decrements the gauge.  An exception of the done write enters the except
\* branch (mark_failed); an exception of the failed write leaves the drain
\* for the except branch of the main loop.
drain_one(w, j, res) ==
    /\ wk[w].pc = "drain"
    /\ j \in wk[w].todo
    /\ pool' = [pool EXCEPT ![w][j] = "none"]
    /\ IF pool[w][j] = "ok"
       THEN /\ jobs' = HSetJob(j, res, [status |-> "done", finished_at |-> now,
                                        result |-> "result"])
            /\ wk' = [wk EXCEPT ![w] =
                 IF res = "ok"
                 THEN [@ EXCEPT !.last = res, !.fmap = @ \ {j}, !.todo = @ \ {j},
                                !.in_flight = @ - 1,
                                !.pc = AfterDrain(wk[w].todo \ {j})]
                 ELSE [@ EXCEPT !.last = res, !.fmap = @ \ {j}, !.todo = @ \ {j},
                                !.cur = j, !.pc = "mark_failed"]]
       ELSE /\ jobs' = HSetJob(j, res, [status |-> "failed", error |-> "work_error"])
            /\ wk' = [wk EXCEPT ![w] =
                 IF res = "ok"
                 THEN [@ EXCEPT !.last = res, !.fmap = @ \ {j}, !.todo = @ \ {j},
                                !.in_flight = @ - 1,
                                !.pc = AfterDrain(wk[w].todo \ {j})]
                 ELSE [@ EXCEPT !.last = res, !.fmap = @ \ {j}, !.todo = {},
                                !.in_flight = @ - 1, !.pc = "brpop"]]
    /\ UNCHANGED <<now, pipe, queue, gw, rd, sm>>

\* The error recorded without the status.
mark_failed_error_only(w, res) ==
    /\ wk[w].pc = "mark_failed"
    /\ jobs' = HSetJob(wk[w].cur, res, [error |-> "store_error"])
    /\ wk' = [wk EXCEPT ![w] =
         IF res = "ok"
         THEN [@ EXCEPT !.last = res, !.cur = 0, !.in_flight = @ - 1,
                        !.pc = AfterDrain(wk[w].todo)]
         ELSE [@ EXCEPT !.last = res, !.cur = 0, !.in_flight = @ - 1,
                        !.todo = {}, !.pc = "brpop"]]
    /\ UNCHANGED <<now, pipe, queue, gw, pool, rd, sm>>

\* Lines 178-183 after a done write that raised: the job is written failed
\* with the message of that exception, and the gauge decremented.
mark_failed(w, res) ==
    /\ wk[w].pc = "mark_failed"
    /\ jobs' = HSetJob(wk[w].cur, res, [status |-> "failed", error |-> "store_error"])
    /\ wk' = [wk EXCEPT ![w] =
         IF res = "ok"
         THEN [@ EXCEPT !.last = res, !.cur = 0, !.in_flight = @ - 1,
                        !.pc = AfterDrain(wk[w].todo)]
         ELSE [@ EXCEPT !.last = res, !.cur = 0, !.in_flight = @ - 1,
                        !.todo = {}, !.pc = "brpop"]]
    /\ UNCHANGED <<now, pipe, queue, gw, pool, rd, sm>>

\* ------------------------------------------- redis-app: read-only endpoints
\* EXISTS asked with the bare id, a key that is never written.
get_job_exists_bare_id(svc, j, res) ==
    /\ rd.pc = "idle"
    /\ rd' = IF res # "ok"
             THEN [IdleR EXCEPT !.svc = svc, !.job = j, !.code = 500]
             ELSE [IdleR EXCEPT !.svc = svc, !.job = j, !.code = 404]
    /\ UNCHANGED <<now, pipe, queue, jobs, gw, wk, pool, sm>>

\* get_job of the gateway (lines 74-78) and of the backend (lines 56-60):
\* r.exists(job_key), 404 when it is false.
get_job_exists(svc, j, res) ==
    /\ rd.pc = "idle"
    /\ rd' = IF res # "ok"
             THEN [IdleR EXCEPT !.svc = svc, !.job = j, !.code = 500]
             ELSE IF ~Exists(j)
             THEN [IdleR EXCEPT !.svc = svc, !.job = j, !.code = 404]
             ELSE [IdleR EXCEPT !.svc = svc, !.job = j, !.pc = "hgetall"]
    /\ UNCHANGED <<now, pipe, queue, jobs, gw, wk, pool, sm>>

\* Line 79 of the gateway, line 61 of the backend: r.hgetall(job_key).
get_job_hgetall(res) ==
    /\ rd.pc = "hgetall"
    /\ rd' = IF res = "ok"
             THEN [rd EXCEPT !.pc = "idle", !.code = 200, !.ret = {jobs[rd.job]}]
             ELSE [rd EXCEPT !.pc = "idle", !.code = 500]
    /\ UNCHANGED <<now, pipe, queue, jobs, gw, wk, pool, sm>>

\* Lines 50-54 of the backend: r.llen(QUEUE_KEY).
queue_length(res) ==
    /\ rd.pc = "idle"
    /\ rd' = IF res = "ok"
             THEN [IdleR EXCEPT !.svc = "backend", !.code = 200, !.ret = {Len(queue)}]
             ELSE [IdleR EXCEPT !.svc = "backend", !.code = 500]
    /\ UNCHANGED <<now, pipe, queue, jobs, gw, wk, pool, sm>>

\* ---------------------------------------------------- redis-app: summarizer
\* float("inf"), the bound of the +Inf bucket: above every finite bound.
Inf == 20000 + 1

\* sum(v for _, v in vals), vals being a sequence of sample values.
RECURSIVE SumOf(_)
SumOf(vals) == IF vals = <<>> THEN 0 ELSE Head(vals) + SumOf(Tail(vals))

\* Lines 83-87: 0.0 when the metric has no sample, else the sum.
get_counter(vals) == IF vals = <<>> THEN 0 ELSE SumOf(vals)

\* buckets.sort(key=lambda x: x[0]): ascending by bound, equal bounds in
\* their given order.
RECURSIVE SortBuckets(_)
SortBuckets(b) ==
    IF b = <<>> THEN <<>>
    ELSE LET m == CHOOSE i \in 1 .. Len(b) :
                     /\ \A k \in 1 .. Len(b) : b[i][1] <= b[k][1]
                     /\ \A k \in 1 .. (i - 1) : b[k][1] # b[i][1]
         IN <<b[m]>> \o SortBuckets(SubSeq(b, 1, m - 1) \o SubSeq(b, m + 1, Len(b)))

\* Lines 91-112: h.buckets are the (le, value) samples of <base>_bucket as
\* exported, h.count the samples of <base>_count.
get_histogram(h) == [buckets |-> SortBuckets(h.buckets), count |-> SumOf(h.count)]

\* Lines 119-125: the loop over the buckets from position i on, cum being
\* the sum of the values before i.
RECURSIVE percentile_walk(_, _, _, _, _)
percentile_walk(buckets, count, q, i, cum) ==
    IF i > Len(buckets)
    THEN IF buckets # <<>> THEN buckets[Len(buckets)][1] ELSE 0
    ELSE IF (cum + buckets[i][2]) * 100 >= q * count
    THEN buckets[i][1]
    ELSE percentile_walk(buckets, count, q, i + 1, cum + buckets[i][2])

\* Lines 115-125; q in hundredths, so cum >= q * count is compared exactly.
histogram_percentile(buckets, count, q) ==
    IF count = 0 THEN 0 ELSE percentile_walk(buckets, count, q, 1, 0)

\* max(0.0, x)
Max0(x) == IF x > 0 THEN x ELSE 0

\* What the two fetches and the parse of a poll can do.
PollOk == {"ok"}
PollAny == {"ok", "ConnectionError", "HTTPError", "ValueError"}

\* The whole counter taken as the increase, whatever was observed before.
Delta_absolute(observed, last) == observed

\* Lines 145-154: 0.0 on the first observation, else the increase of the
\* counter since the last one, clamped at zero.
Delta(observed, last) ==
    IF last = {} THEN 0 ELSE Max0(observed - (CHOOSE v \in last : TRUE))

\* The delta divided by the configured interval instead of the time elapsed.
RateOf_configured(delta, last_poll_time) ==
    IF last_poll_time = {} THEN NoRate ELSE Rate(delta, POLL_INTERVAL)

\* Lines 157-174: interval is None on the first poll; the rate is
\* delta / interval when the interval is known and positive, else 0.0.
RateOf(delta, last_poll_time) ==
    LET interval == {now - t : t \in last_poll_time}
    IN IF \E i \in interval : i > 0
       THEN Rate(delta, CHOOSE i \in interval : TRUE)
       ELSE NoRate

\* The failure counted and the baseline forgotten.
PollError_forgets ==
    [sm EXCEPT !.pc = "sleep", !.poll_errors = @ + 1,
               !.last_enqueued = {}, !.last_processed = {}, !.last_poll_time = {}]

\* Lines 134-137: the failure is logged and counted, and the call returns.
PollError == [sm EXCEPT !.pc = "sleep", !.poll_errors = @ + 1]

\* Lines 128-210: one call of poll_and_update.  res is how the fetch of
\* /metrics, the parse and the fetch of /queue/length ended, m the samples
\* parsed, n the queue length returned.  The two fetches change nothing of
\* the summarizer, so they are one step with the update that follows them.
poll_and_update(res, m, n) ==
    /\ sm.pc = "poll"
    /\ IF res # "ok"
       THEN sm' = PollError
       ELSE LET enqueued == get_counter(m.enqueued)
                processed == get_counter(m.processed)
                delta_enq == Delta(enqueued, sm.last_enqueued)
                delta_proc == Delta(processed, sm.last_processed)
                e2e == get_histogram(m.e2e)
                proc == get_histogram(m.proc)
            IN sm' = [sm EXCEPT
                 !.pc = "sleep",
                 !.enqueued_total = IF delta_enq > 0 THEN @ + delta_enq ELSE @,
                 !.processed_total = IF delta_proc > 0 THEN @ + delta_proc ELSE @,
                 !.enqueue_rate = RateOf(delta_enq, sm.last_poll_time),
                 !.process_rate = RateOf(delta_proc, sm.last_poll_time),
                 !.queue_length = n,
                 !.metrics = m,
                 !.e2e_p = [q \in Quantiles |->
                              histogram_percentile(e2e.buckets, e2e.count, q)],
                 !.proc_p = [q \in Quantiles |->
                               histogram_percentile(proc.buckets, proc.count, q)],
                 !.last_poll_ts = now,
                 !.last_enqueued = {enqueued},
                 !.last_processed = {processed},
                 !.last_poll_time = {now}]
    /\ UNCHANGED <<now, pipe, queue, jobs, gw, wk, pool, rd>>

\* Line 221: time.sleep(POLL_INTERVAL), then the next turn of the loop.
poller_sleep ==
    /\ sm.pc = "sleep"
    /\ now + POLL_INTERVAL <= MaxTicks * LOCK_TTL
    /\ now' = now + POLL_INTERVAL
    /\ sm' = [sm EXCEPT !.pc = "poll"]
    /\ UNCHANGED <<pipe, queue, jobs, gw, wk, pool, rd>>

\* ----------------------------------------------------------------- time
Tick ==
    /\ now < MaxTicks * LOCK_TTL
    /\ now' = now + LOCK_TTL
    /\ UNCHANGED <<pipe, app>>

\* -------------------------------------------------------------- clients
\* A client posts to /process.
ClientProcess(p, body) ==
    /\ process_receive(p, body)
    /\ UNCHANGED <<now, lock, hash, files, published, freq, claimed, prod, app>>

\* A client posts to /finalize.
ClientFinalize(f, body) ==
    /\ finalize_receive(f, body)
    /\ UNCHANGED <<now, lock, hash, files, published, preq, claimed, prod, app>>

ValidImage(j) == ImgBody(TRUE, j, "ok", 1, "ok")
ValidResult(j) == FinBody(TRUE, j, "ok", 1, "png")

\* ------------------------------------------------------- specifications
\* The steps of the /process handler, for Redis results S and post results H.
Process(S, H) ==
    \/ \E p \in PReqs, r \in S : process_claim(p, r)
    \/ \E p \in PReqs, r \in S : process_set_processing(p, r)
    \/ \E p \in PReqs, r \in S : process_set_processed(p, r)
    \/ \E p \in PReqs, f \in FReqs, r \in H : process_send(p, f, r)
    \/ \E p \in PReqs : process_response(p)
    \/ \E p \in PReqs, r \in S : process_finally(p, r)

\* The steps of the /finalize handler, for Redis results S and file results D.
Finalize(S, D) ==
    \/ \E f \in FReqs, r \in S : finalize_read(f, r)
    \/ \E f \in FReqs, r \in S : finalize_set_finalizing(f, r)
    \/ \E f \in FReqs, r \in D : finalize_persist(f, r)
    \/ \E f \in FReqs, r \in S : finalize_set_finished(f, r)
    \/ \E f \in FReqs, r \in S : finalize_publish(f, r)

\* Processor and aggregator serving clients of /process, with every failure
\* the handlers provide for.
ProcBodies ==
    {ValidImage(j) : j \in Jobs} \cup
    {ImgBody(TRUE, 1, "bad", 0, ""),
     ImgBody(TRUE, 1, "ok", 0, ""),
     ImgBody(TRUE, 1, "ok", MAX_INPUT_BYTES + 1, "ok"),
     ImgBody(TRUE, 1, "ok", 1, "UnidentifiedImageError"),
     ImgBody(TRUE, 1, "ok", 1, "convert")}

Next ==
    \/ Tick
    \/ \E p \in PReqs, b \in ProcBodies : ClientProcess(p, b)
    \/ Process(StoreAny, PostAny)
    \/ \E p \in PReqs : process_timeout(p)
    \/ \E p \in PReqs : process_unhandled(p)
    \/ Finalize(StoreAny, FileAny)

Spec == Init /\ [][Next]_vars

\* The same with processors that may die, and calls that succeed.
NextCrash ==
    \/ Tick
    \/ \E p \in PReqs : ClientProcess(p, ValidImage(1))
    \/ Process(StoreOk, PostOk)
    \/ \E p \in PReqs : process_timeout(p)
    \/ \E p \in PReqs : process_crash(p)
    \/ Finalize(StoreOk, FileOk)

SpecCrash == Init /\ [][NextCrash]_vars

\* The aggregator serving clients of /finalize.
FinBodies == {ValidResult(j) : j \in Jobs} \cup {FinBody(TRUE, 1, "ok", 0, "")}

NextFinalize ==
    \/ Tick
    \/ \E f \in FReqs, b \in FinBodies : ClientFinalize(f, b)
    \/ Finalize(StoreAny, FileAny)

SpecFinalize == Init /\ [][NextFinalize]_vars

\* The split pipeline end to end: the producer submits jobs with fresh
\* uuids and a valid image, the Store, the processor and the aggregator
\* answer every call, and a client repeats the producer's post.  A repeated
\* post takes a request slot the producer will not need.
ClientDuplicate(p) ==
    /\ Cardinality({q \in PReqs : preq[q].pc = "idle"})
          > Cardinality(Jobs \ prod.made)
    /\ \E q \in prod.req : ClientProcess(p, preq[q].body)

\* The steps the producer loop and the two services take on their own.
StepE2E ==
    \/ \E j \in Jobs \ prod.made : produce_claim(j, "ok")
    \/ produce_set_queued("ok", Fetched("", 1, "ok"))
    \/ \E p \in PReqs : produce_send(p, "ok")
    \/ produce_response
    \/ Process(StoreOk, PostOk)
    \/ Finalize(StoreOk, FileOk)

NextE2E ==
    \/ Tick
    \/ StepE2E
    \/ produce_timeout
    \/ \E p \in PReqs : process_timeout(p)
    \/ \E p \in PReqs : ClientDuplicate(p)

\* The producer loop and the request handlers keep running.
SpecE2E == Init /\ [][NextE2E]_vars /\ WF_vars(StepE2E)

\* The two services given payloads at the edges of the size limits: empty,
\* exactly the maximum, one byte over.
EdgeProcBodies ==
    {ImgBody(TRUE, 1, "ok", n, "ok") : n \in {0, MAX_INPUT_BYTES, MAX_INPUT_BYTES + 1}}

EdgeFinBodies ==
    {FinBody(TRUE, 1, "ok", n, "png") : n \in {0, MAX_RESULT_BYTES, MAX_RESULT_BYTES + 1}}

NextEdge ==
    \/ \E p \in PReqs, b \in EdgeProcBodies : ClientProcess(p, b)
    \/ \E f \in FReqs, b \in EdgeFinBodies : ClientFinalize(f, b)
    \/ Process(StoreOk, PostOk)
    \/ Finalize(StoreOk, FileOk)

SpecEdge == Init /\ [][NextEdge]_vars

\* The redis-app: gateways taking submissions, workers, their pools, with
\* every failure of a Redis call and of a pool submission.
Gateway(S) ==
    \/ \E j \in WJobs, r \in S : create_job_hset(j, r)
    \/ \E j \in WJobs, r \in S : create_job_lpush(j, r)

Worker(S, B) ==
    \/ \E w \in Workers, r \in S : brpop(w, r)
    \/ \E w \in Workers, r \in S : hgetall(w, r)
    \/ \E w \in Workers, r \in S, b \in B : hset_processing(w, r, b)
    \/ \E w \in Workers, j \in WJobs, o \in {"ok", "exc"} : task_finish(w, j, o)
    \/ \E w \in Workers, j \in WJobs, r \in S : drain_one(w, j, r)
    \/ \E w \in Workers, r \in S : mark_failed(w, r)

NextApp ==
    \/ Tick
    \/ Gateway(CallAny)
    \/ Worker(CallAny, {"ok", "BrokenProcessPool"})

SpecApp == Init /\ [][NextApp]_vars

\* The redis-app with a client of the read-only endpoints.
NextRead ==
    \/ Gateway(CallAny)
    \/ Worker(CallAny, {"ok"})
    \/ \E svc \in {"gateway", "backend"}, j \in WJobs, r \in CallAny :
          get_job_exists(svc, j, r)
    \/ \E r \in CallAny : get_job_hgetall(r)
    \/ \E r \in CallAny : queue_length(r)

SpecRead == Init /\ [][NextRead]_vars

\* One gateway client that submits its jobs one after the other, and one
\* worker.
NextFifo ==
    \/ \E j \in WJobs, r \in CallAny :
          (\A i \in WJobs : i < j => gw[i].pc = "done") /\ create_job_hset(j, r)
    \/ \E j \in WJobs, r \in CallAny : create_job_lpush(j, r)
    \/ \E r \in CallAny : brpop(1, r)
    \/ \E r \in CallAny : hgetall(1, r)
    \/ \E r \in CallAny, b \in {"ok", "BrokenProcessPool"} : hset_processing(1, r, b)
    \/ \E j \in WJobs, o \in {"ok", "exc"} : task_finish(1, j, o)
    \/ \E j \in WJobs, r \in CallAny : drain_one(1, j, r)
    \/ \E r \in CallAny : mark_failed(1, r)

SpecFifo == Init /\ [][NextFifo]_vars

\* The summarizer polling a backend whose counters go up, stay or are reset,
\* with every failure of a poll; the histograms are not exported.
CounterSamples == {<<>>} \cup {<<v>> : v \in 0 .. MaxCount}

NextSumm ==
    \/ Tick
    \/ poller_sleep
    \/ \E res \in PollAny, e, p \in CounterSamples, n \in 0 .. MaxSubmits :
          poll_and_update(res, Metrics(e, p, Samples(<<>>, <<>>), Samples(<<>>, <<>>)), n)

SpecSumm == Init /\ [][NextSumm]_vars

\* Three of the bucket bounds of worker_job_end_to_end_latency_seconds.
BucketBounds == <<1, 5, 10>>

\* A histogram as prometheus_client exports it: one sample per bound and one
\* for +Inf, each the number of observations at or below the bound, and the
\* count, which is the value of the +Inf bucket.  c are the cumulative
\* values in the order of the bounds.
Export(c) ==
    Samples([i \in 1 .. Len(c) |->
                <<IF i <= Len(BucketBounds) THEN BucketBounds[i] ELSE Inf, c[i]>>],
            <<c[Len(c)]>>)

\* The exports of at most MaxCount observations, and the snapshot
\* [(1,5),(5,8),(10,10)] with count 10.
HistSamples ==
    {Export(c) : c \in {d \in [1 .. Len(BucketBounds) + 1 -> 0 .. MaxCount] :
                            \A i \in 1 .. Len(BucketBounds) : d[i] <= d[i + 1]}}
    \cup {Samples(<<<<1, 5>>, <<5, 8>>, <<10, 10>>>>, <<10>>)}

\* The summarizer polling a backend that exports the two histograms.
NextPct ==
    \/ poller_sleep
    \/ \E e, p \in HistSamples : poll_and_update("ok", Metrics(<<>>, <<>>, e, p), 0)

SpecPct == Init /\ [][NextPct]_vars

\* The producer loop with every failure produce_once provides for, in front
\* of a processor and an aggregator that answer.  uuid4 may give an id again;
\* an iteration starts while fewer than MaxErrors errors are counted.
FetchOutcomes ==
    {Fetched(e, 0, "") : e \in {"ConnectionError", "Timeout", "HTTPError",
                                "RequestException", "Exception"}}
    \cup {Fetched("", n, "ok") : n \in {0, 1, MAX_FETCH_BYTES + 1}}
    \cup {Fetched("", 1, "UnidentifiedImageError")}

NextProducer ==
    \/ Tick
    \/ \E j \in Jobs, r \in StoreAny : prod.errors < MaxErrors /\ produce_claim(j, r)
    \/ \E r \in StoreAny, img \in FetchOutcomes : produce_set_queued(r, img)
    \/ \E p \in PReqs, r \in PostAny \cup {"Exception"} : produce_send(p, r)
    \/ produce_response
    \/ produce_timeout
    \/ produce_unhandled
    \/ Process(StoreOk, PostOk)
    \/ Finalize(StoreOk, FileOk)

SpecProducer == Init /\ [][NextProducer]_vars

\* The steps of worker w's main loop when the Store and the pool answer.
LoopOk(w) ==
    \/ brpop(w, "ok")
    \/ hgetall(w, "ok")
    \/ hset_processing(w, "ok", "ok")
    \/ \E j \in Backlog : drain_one(w, j, "ok")

\* The redis-app with a reachable Store and workers that do not crash: every
\* main loop keeps running; nothing is assumed of the gateways or of how
\* long a work function takes.
NextLive ==
    \/ Tick
    \/ Gateway(CallOk)
    \/ \E w \in Workers : LoopOk(w)
    \/ \E w \in Workers, j \in WJobs, o \in {"ok", "exc"} : task_finish(w, j, o)

SpecLive == Init /\ [][NextLive]_vars /\ \A w \in Workers : WF_vars(LoopOk(w))

\* One worker with a reachable Store, where the work function of job 1
\* never returns and that of every other job does.
NextHung ==
    \/ Tick
    \/ Gateway(CallOk)
    \/ LoopOk(1)
    \/ \E j \in WJobs \ {1}, o \in {"ok", "exc"} : task_finish(1, j, o)

SpecHung ==
    /\ Init /\ [][NextHung]_vars
    /\ WF_vars(LoopOk(1))
    /\ \A j \in WJobs \ {1} : WF_vars(\E o \in {"ok", "exc"} : task_finish(1, j, o))

\* One worker and a backlog of more submissions than its pool has
\* subprocesses, with the Store and the pool answering every call.
NextPool ==
    \/ \E j \in Backlog : create_job_hset(j, "ok")
    \/ \E j \in Backlog : create_job_lpush(j, "ok")
    \/ LoopOk(1)
    \/ \E j \in Backlog, o \in {"ok", "exc"} : task_finish(1, j, o)

SpecPool == Init /\ [][NextPool]_vars

\* ---------------------------------------------------------------- claims
\* p is between acquiring lock:job:<id> and releasing it.
InSection(p) ==
    preq[p].pc \in {"set_processing", "set_processed", "send", "await", "finally"}

JobOf(p) == preq[p].body.job

\* C1: whenever the Store answers the SET NX of a /process request, the
\* request acquires the lock if the key is absent and gets already_processing
\* (409), without touching the key, if it is present; so of several attempts
\* with no release or expiry between them exactly the first acquires.
C1_ExactlyOneAcquires ==
    [][\A p \in PReqs :
         (/\ preq[p].pc = "claim"
          /\ preq'[p].pc # "claim"
          /\ preq'[p].resp.code \notin {500, 503})
         => IF LockHeld(JobOf(p))
            THEN /\ preq'[p].pc = "done"
                 /\ preq'[p].resp = Resp(409, "already_processing")
                 /\ preq'[p].got = {}
                 /\ lock' = lock
            ELSE /\ preq'[p].pc = "set_processing"
                 /\ preq'[p].got = {now}
                 /\ lock'[JobOf(p)] = {now + LOCK_TTL}]_vars

\* Two attempts on one id with the lock still held: one acquired, the other
\* was answered 409.
C1_Witness ==
    \E p, q \in PReqs :
        /\ p # q
        /\ JobOf(p) = JobOf(q)
        /\ InSection(p)
        /\ preq[p].got # {}
        /\ LockHeld(JobOf(p))
        /\ preq[q].pc = "done"
        /\ preq[q].resp.code = 409

\* C2: while lock:job:<id> is held, at most one /process request is in its
\* processing section for that id.
C2_AtMostOneInSection ==
    \A j \in Jobs :
        LockHeld(j) => Cardinality({p \in PReqs : InSection(p) /\ JobOf(p) = j}) <= 1

\* C8: every step of a /process request that was answered already_processing
\* leaves the Job hash, the lock key, the artifacts and the notifications as
\* they were, and the request has returned.
C8_LostClaimChangesNothing ==
    [][\A p \in PReqs :
         (preq'[p] # preq[p] /\ preq'[p].resp.body = "already_processing")
         => /\ preq'[p].pc = "done"
            /\ preq'[p].resp.code = 409
            /\ hash' = hash
            /\ lock' = lock
            /\ files' = files
            /\ published' = published]_vars

\* A request answered 409 while the winner has written status processing and
\* still holds the key with its full TTL.
C8_Witness ==
    \E p, q \in PReqs :
        /\ p # q
        /\ JobOf(p) = JobOf(q)
        /\ preq[q].pc = "done"
        /\ preq[q].resp.body = "already_processing"
        /\ preq[p].pc = "set_processed"
        /\ hash[JobOf(p)].status = {"processing"}
        /\ lock[JobOf(p)] = {now + LOCK_TTL}

\* C9: a /process request that acquired the lock returns only through the
\* finally block, on every exit path; when the Store answers the DELETE, the
\* key is absent when the request returns and a new SET NX would succeed.
C9_LockDeletedOnReturn ==
    [][\A p \in PReqs :
         (preq[p].got # {} /\ preq[p].pc # "done" /\ preq'[p].pc = "done")
         => /\ preq[p].pc = "finally"
            /\ preq'[p].released => (lock'[JobOf(p)] = {} /\ SetNX(JobOf(p))')]_vars

\* The exit paths: success, a rejected image, a failed transform, the
\* aggregator unreachable, timing out or failing, an unhandled exception.
C9_Witness ==
    \E p \in PReqs :
        /\ preq[p].pc = "done"
        /\ preq[p].got # {}
        /\ preq[p].released
        /\ preq[p].resp.body \in {"sent_to_aggregator", "processing_error",
                                  "aggregator_unreachable", "aggregator_timeout",
                                  "aggregator_error", "internal_error"}
        /\ lock[JobOf(p)] = {}

\* C10: while the TTL of a lock whose processor died has not elapsed, the
\* key is present, so every claim attempt for that id is answered
\* already_processing.
C10_CrashedLockHeldUntilTTL ==
    \A p \in PReqs :
        (preq[p].pc = "crashed" /\ \E t \in preq[p].got : now < t + LOCK_TTL)
        => LockHeld(JobOf(p))

\* The /finalize requests that wrote the artifact of job j.
Persisted(j) ==
    {f \in FReqs : /\ freq[f].body.job = j
                   /\ \/ freq[f].pc \in {"set_finished", "publish"}
                      \/ freq[f].pc = "done" /\ freq[f].resp.body = "finished"}

\* C3: a /finalize request that reads status finished (an earlier request set
\* it and nothing has rewritten it since) is answered already_finished, and
\* no step of a request answered already_finished changes the Job hash, the
\* artifact or the notifications.
C3_FinalizeTwiceIsIdempotent ==
    [][\A g \in FReqs :
         /\ (/\ freq[g].pc = "read"
             /\ freq'[g].pc # "read"
             /\ freq'[g].resp.code \notin {500, 503}
             /\ hash[freq[g].body.job].status = {"finished"})
            => freq'[g].resp = Resp(200, "already_finished")
         /\ (freq'[g] # freq[g] /\ freq'[g].resp.body = "already_finished")
            => /\ freq'[g].pc = "done"
               /\ hash' = hash
               /\ files' = files
               /\ published' = published]_vars

\* One request finished the job at time 0; a second one, answered later,
\* got already_finished; the artifact was written once and finished_at is
\* still the first request's.
C3_Witness ==
    \E f, g \in FReqs :
        /\ freq[f].pc = "done" /\ freq[f].resp = Resp(200, "finished")
        /\ freq[g].pc = "done" /\ freq[g].resp.body = "already_finished"
        /\ freq[f].body = freq[g].body
        /\ Cardinality(Persisted(freq[f].body.job)) = 1
        /\ hash[freq[f].body.job].finished_at = {0}
        /\ now > 0

\* f returned 200 and reports no failed Redis update.
ReturnedOk(f) == freq[f].pc = "done" /\ freq[f].resp.code = 200 /\ ~freq[f].resp.warn

\* C4: once the /finalize requests for a job id, two or more, have all
\* returned 200, the Job hash has status finished and the job-id-derived
\* result_path, whatever the interleaving of their steps.
C4_ConcurrentFinalizeConverges ==
    \A j \in Jobs :
        LET R == {f \in FReqs : freq[f].body.job = j /\ freq[f].pc # "idle"}
        IN (Cardinality(R) >= 2 /\ \A f \in R : ReturnedOk(f))
           => /\ hash[j].status = {"finished"}
              /\ hash[j].result_path = {PathOf(j)}

\* Both requests passed the status check: both wrote the artifact and both
\* returned finished.
C4_Witness ==
    \E f, g \in FReqs :
        /\ f # g
        /\ freq[f].body = freq[g].body
        /\ ReturnedOk(f) /\ freq[f].resp.body = "finished"
        /\ ReturnedOk(g) /\ freq[g].resp.body = "finished"
        /\ hash[freq[f].body.job].status = {"finished"}

\* The place of a status in the order pending/queued, processing, processed,
\* finalizing, finished; failed follows processing.
Rank(st) ==
    IF st = {} THEN 0
    ELSE IF st \subseteq {"pending", "queued"} THEN 1
    ELSE IF st = {"processing"} THEN 2
    ELSE IF st \subseteq {"processed", "failed"} THEN 3
    ELSE IF st = {"finalizing"} THEN 4
    ELSE 5

\* C5: no step writes a status that is earlier in the order than the
\* current one.
C5_StatusNeverMovesBack ==
    [][\A j \in Jobs : Rank(hash'[j].status) >= Rank(hash[j].status)]_vars

\* C6: once the Job hash has status finished, no step changes any of its
\* fields.
C6_FinishedIsFinal ==
    [][\A j \in Jobs : hash[j].status = {"finished"} => hash'[j] = hash[j]]_vars

\* The /process requests that acquired the lock of job j.
Acquired(j) == {p \in PReqs : JobOf(p) = j /\ preq[p].got # {}}

\* One step forward in the order of the statuses.
StatusStep(old, new) ==
    \/ old = {} /\ new = {"queued"}
    \/ old = {"queued"} /\ new = {"processing"}
    \/ old = {"processing"} /\ new = {"processed"}
    \/ old = {"processed"} /\ new = {"finalizing"}
    \/ old = {"finalizing"} /\ new = {"finished"}

\* C7: with the Store, the processor and the aggregator answering and a
\* valid image, (a) a /process request whose claim is attempted while
\* another request for the same id is in its section under a live lock is
\* answered 409 and acquires nothing, (b) while one request has claimed a
\* job every change of its status is one step forward in the order queued,
\* processing, processed, finalizing, finished, and (c) every job the
\* producer queued eventually has status finished and a result_path.
C7_SubmittedJobReachesFinished ==
    /\ [][\A p \in PReqs :
            (/\ preq[p].pc = "claim"
             /\ preq'[p].pc # "claim"
             /\ \E q \in PReqs \ {p} :
                   JobOf(q) = JobOf(p) /\ InSection(q) /\ LockHeld(JobOf(p)))
            => /\ preq'[p].resp = Resp(409, "already_processing")
               /\ preq'[p].got = {}]_vars
    /\ [][\A j \in Jobs :
            (Cardinality(Acquired(j)') <= 1 /\ hash'[j].status # hash[j].status)
            => StatusStep(hash[j].status, hash'[j].status)]_vars
    /\ \A j \in Jobs :
         (hash[j].status = {"queued"})
           ~> (hash[j].status = {"finished"} /\ hash[j].result_path # {})

\* The producer's post claimed the job and was answered sent_to_aggregator,
\* the repeated post was answered 409, and the job is finished with its
\* artifact written.
C7_Witness ==
    \E p, q \in PReqs :
        /\ p \in prod.req
        /\ p # q
        /\ preq[q].body = preq[p].body
        /\ preq[p].pc = "done" /\ preq[p].resp = Resp(200, "sent_to_aggregator")
        /\ preq[q].pc = "done" /\ preq[q].resp.code = 409
        /\ prod.ret = "sent_to_aggregator"
        /\ hash[JobOf(p)].status = {"finished"}
        /\ hash[JobOf(p)].result_path = {PathOf(JobOf(p))}
        /\ files[JobOf(p)] # {}

\* C11: a /process request that returned because the image could not be
\* opened or the transform failed has left the Job hash with status failed.
C11_WorkFailureSetsFailed ==
    \A p \in PReqs :
        (/\ preq[p].pc = "done"
         /\ preq[p].resp.body \in {"processing_error", "invalid_image_data"})
        => hash[JobOf(p)].status = {"failed"}

\* C17: a /process request that acquired the lock and decoded its payload
\* is answered empty_image_payload for 0 bytes, payload_too_large for more
\* than MAX_INPUT_BYTES and sent_to_aggregator for any size up to and
\* including MAX_INPUT_BYTES; a /finalize request that passed the duplicate
\* check is answered empty_processed_payload for 0 bytes, payload_too_large
\* for more than MAX_RESULT_BYTES and finished up to and including
\* MAX_RESULT_BYTES.
C17_SizeBoundaries ==
    /\ \A p \in PReqs :
         (preq[p].pc = "done" /\ preq[p].got # {} /\ preq[p].body.b64 = "ok")
         => preq[p].resp =
              IF preq[p].body.size = 0 THEN Resp(400, "empty_image_payload")
              ELSE IF preq[p].body.size >= MAX_INPUT_BYTES + 1
              THEN Resp(413, "payload_too_large")
              ELSE Resp(200, "sent_to_aggregator")
    /\ \A f \in FReqs :
         (/\ freq[f].pc = "done"
          /\ freq[f].body.b64 = "ok"
          /\ freq[f].resp.body # "already_finished")
         => freq[f].resp =
              IF freq[f].body.size = 0 THEN Resp(400, "empty_processed_payload")
              ELSE IF freq[f].body.size >= MAX_RESULT_BYTES + 1
              THEN Resp(413, "payload_too_large")
              ELSE Resp(200, "finished")

\* Payloads of exactly the maximum size went through both services, and
\* payloads one byte over and empty ones were rejected.
C17_Witness ==
    \E p, q \in PReqs, f \in FReqs :
        /\ preq[p].body.size = MAX_INPUT_BYTES
        /\ preq[p].resp = Resp(200, "sent_to_aggregator")
        /\ preq[q].body.size = MAX_INPUT_BYTES + 1
        /\ preq[q].resp = Resp(413, "payload_too_large")
        /\ freq[f].body.size = MAX_RESULT_BYTES
        /\ freq[f].resp = Resp(200, "finished")

\* C18: the step in which the forward to the aggregator fails (the post
\* raises, or times out) sets one of the responses aggregator_unreachable,
\* aggregator_timeout, aggregator_error and writes nothing to the Job hash;
\* the request then returns that response through the finally block, which
\* writes nothing to the Job hash either and, when the DELETE is answered,
\* leaves the lock key absent.
C18_ForwardFailureKeepsProcessed ==
    [][\A p \in PReqs :
         /\ (/\ preq[p].pc \in {"send", "await"}
             /\ preq'[p].pc = "finally"
             /\ preq'[p].resp.code # 200
             /\ preq'[p].resp.body # "internal_error")
            => /\ preq'[p].resp \in {Resp(503, "aggregator_unreachable"),
                                    Resp(504, "aggregator_timeout"),
                                    Resp(502, "aggregator_error")}
               /\ hash' = hash
         /\ (/\ preq[p].pc = "finally"
             /\ preq'[p].pc = "done"
             /\ preq[p].resp.code \in {502, 503, 504})
            => /\ preq'[p].resp = preq[p].resp
               /\ hash' = hash
               /\ preq'[p].released => lock'[JobOf(p)] = {}]_vars

\* A request whose forward failed has returned: the status is still
\* processed and the lock is gone.
C18_Witness ==
    \E p \in PReqs :
        /\ preq[p].pc = "done"
        /\ preq[p].resp.body \in {"aggregator_unreachable", "aggregator_timeout",
                                  "aggregator_error"}
        /\ hash[JobOf(p)].status = {"processed"}
        /\ hash[JobOf(p)].processed_at # {}
        /\ preq[p].released
        /\ lock[JobOf(p)] = {}

\* C19: the publish step of /finalize, whether or not the publish is
\* answered, returns 200 finished, with the warning only the finished write
\* decides, and leaves the Job hash as it was.
C19_PublishFailureIsNotFatal ==
    [][\A f \in FReqs :
         (freq[f].pc = "publish" /\ freq'[f].pc # "publish")
         => /\ freq'[f].pc = "done"
            /\ freq'[f].resp = [code |-> 200, body |-> "finished",
                                warn |-> freq[f].redis_update_failed]
            /\ hash' = hash]_vars

\* The finished write succeeded, the publish failed, the request returned
\* finished and the record is complete.
C19_Witness ==
    \E f \in FReqs :
        /\ freq[f].pc = "done"
        /\ freq[f].resp = Resp(200, "finished")
        /\ freq[f].body.job \notin published
        /\ hash[freq[f].body.job].status = {"finished"}
        /\ hash[freq[f].body.job].result_path = {PathOf(freq[f].body.job)}
        /\ hash[freq[f].body.job].finished_at # {}

\* The order of the steps of one /finalize request.
FinalizeOrder ==
    {<<"idle", "read">>, <<"idle", "done">>, <<"read", "set_finalizing">>,
     <<"read", "done">>, <<"set_finalizing", "persist">>,
     <<"set_finalizing", "done">>, <<"persist", "set_finished">>,
     <<"persist", "done">>, <<"set_finished", "publish">>, <<"publish", "done">>}

Tracked(w) == wk[w].fmap \cup (IF wk[w].cur = 0 THEN {} ELSE {wk[w].cur})

\* C12: when the future of a job whose work function raised is drained and
\* the Store answers the write, the job has status failed and a non-empty
\* error string; and the step in which a dispatched job stops being drained,
\* on the done path, the failed path or with the Store write raising,
\* decrements the in-flight gauge of its worker by exactly one, which is the
\* only way the gauge goes down.
C12_DrainRecordsFailure ==
    [][\A w \in Workers :
         /\ \A j \in WJobs :
              /\ (/\ wk[w].pc = "drain"
                  /\ j \in wk[w].fmap
                  /\ j \notin wk'[w].fmap
                  /\ pool[w][j] = "exc"
                  /\ wk'[w].last = "ok")
                 => /\ jobs'[j].status = {"failed"}
                    /\ jobs'[j].error # {}
                    /\ "" \notin jobs'[j].error
              /\ (j \in Tracked(w) /\ j \notin Tracked(w)')
                 => wk'[w].in_flight = wk[w].in_flight - 1
         /\ wk'[w].in_flight < wk[w].in_flight
            => Cardinality(Tracked(w) \ Tracked(w)') = 1]_vars

\* A job whose work function raised is failed with its error string, a job
\* whose failed write raised was dropped from the map, and the gauge is back
\* at zero.
C12_Witness ==
    \E w \in Workers, i, j \in WJobs :
        /\ i # j
        /\ jobs[i].status = {"failed"}
        /\ jobs[i].error = {"work_error"}
        /\ jobs[j].status = {"processing"}
        /\ pool[w][j] = "none"
        /\ wk[w].last = "RedisError"
        /\ wk[w].pc = "brpop"
        /\ Tracked(w) = {}
        /\ wk[w].in_flight = 0

\* The Job hash create_job writes for a request.
Pending(j) == [NoMeta EXCEPT !.status = {"pending"}, !.created_at = gw[j].created_at,
                             !.payload = {"payload"}]

\* The positions of job id j in the queue.
Queued(q, j) == {k \in 1 .. Len(q) : q[k] = j}

\* C13: the hash write of create_job creates job:<id>, absent before, with
\* status pending, created_at and the payload, and changes no other hash
\* and not the queue; the step that answers 200 pushes the id, which was not
\* in the queue, exactly once, so the queue grows by one, and changes no
\* hash; no step of create_job looks at a worker.
C13_SubmitCreatesAndQueuesOnce ==
    [][\A j \in WJobs :
         /\ (gw[j].pc = "hset" /\ gw'[j].pc = "lpush")
            => /\ jobs[j] = NoMeta
               /\ jobs' = [jobs EXCEPT ![j] = Pending(j)']
               /\ queue' = queue
         /\ (gw[j].resp = 0 /\ gw'[j].resp = 200)
            => /\ jobs[j] = Pending(j)
               /\ jobs' = jobs
               /\ Queued(queue, j) = {}
               /\ Cardinality(Queued(queue', j)) = 1
               /\ Len(queue') = Len(queue) + 1
               /\ \A i \in WJobs \ {j} :
                    Cardinality(Queued(queue', i)) = Cardinality(Queued(queue, i))
               /\ wk' = wk /\ pool' = pool]_vars

\* Two submits were answered 200 while no worker has popped anything: both
\* ids are queued and both hashes are pending.
C13_Witness ==
    \E i, j \in WJobs :
        /\ i # j
        /\ gw[i].resp = 200 /\ gw[j].resp = 200
        /\ Len(queue) = 2
        /\ Queued(queue, i) # {} /\ Queued(queue, j) # {}
        /\ jobs[i] = Pending(i) /\ jobs[j] = Pending(j)

\* C14: a step of get_job or queue_length changes no Job hash, not the
\* queue and no lock; an answered EXISTS of get_job gives 404 exactly when
\* job:<id> does not exist, the HGETALL that follows returns the stored
\* fields, and queue_length returns the length of the queue.
C14_ReadsChangeNothing ==
    [][rd' # rd
       => /\ jobs' = jobs /\ queue' = queue /\ lock' = lock /\ hash' = hash
          /\ wk' = wk /\ pool' = pool /\ gw' = gw
          /\ (rd.pc = "idle" /\ rd'.job # 0 /\ rd'.code # 500)
             => /\ rd'.code = 404 <=> ~Exists(rd'.job)
                /\ rd'.pc = "hgetall" <=> Exists(rd'.job)
          /\ (rd.pc = "hgetall" /\ rd'.code # 500)
             => /\ rd'.code = 200
                /\ rd'.ret = {jobs[rd.job]}
                /\ Exists(rd.job)
          /\ (rd.pc = "idle" /\ rd'.job = 0 /\ rd'.code # 500)
             => /\ rd'.code = 200
                /\ rd'.ret = {Len(queue)}]_vars

\* The backend returned the fields of a job that is done, while another id
\* is still queued.
C14_Witness ==
    /\ rd.svc = "backend"
    /\ rd.pc = "idle"
    /\ rd.code = 200
    /\ rd.job # 0
    /\ rd.ret = {jobs[rd.job]}
    /\ jobs[rd.job].status = {"done"}
    /\ Len(queue) = 1

\* C15: every id in the queue has a Job hash with status and created_at,
\* and so has every id a worker has popped and is about to read.
C15_QueuedIdsHaveHash ==
    /\ \A k \in 1 .. Len(queue) :
         /\ Exists(queue[k])
         /\ jobs[queue[k]].status # {}
         /\ jobs[queue[k]].created_at # {}
    /\ \A w \in Workers :
         wk[w].pc = "hgetall"
         => /\ Exists(wk[w].job)
            /\ jobs[wk[w].job].created_at # {}

\* A worker has popped one id and is about to read its hash while a gateway
\* is between the hash write and the push of another.
C15_Witness ==
    \E w \in Workers, j \in WJobs :
        /\ wk[w].pc = "hgetall"
        /\ wk[w].job # j
        /\ gw[j].pc = "lpush"
        /\ Exists(j)
        /\ Queued(queue, j) = {}

\* C16: a push puts the id at the head of the list and a pop takes the
\* tail; so with one gateway client submitting one job after the other and
\* one worker, when the worker pops an id every id submitted before it has
\* left the queue, and a job is marked processing only after every job
\* submitted before it was popped.
C16_QueueIsFifo ==
    [][/\ \A j \in WJobs :
            (gw[j].resp = 0 /\ gw'[j].resp = 200) => queue' = <<j>> \o queue
       /\ \A w \in Workers :
            (wk[w].pc = "brpop" /\ wk'[w].pc = "hgetall")
            => /\ queue = queue' \o <<wk'[w].job>>
               /\ \A i \in WJobs :
                    (i < wk'[w].job /\ gw[i].resp = 200) => Queued(queue, i) = {}]_vars

\* Two jobs were queued together and the worker has dispatched the first
\* and popped the second.
C16_Witness ==
    /\ jobs[1].status = {"processing"}
    /\ jobs[1].started_at # {}
    /\ wk[1].pc = "hgetall"
    /\ wk[1].job = 2
    /\ wk[1].fmap = {1}
    /\ gw[2].resp = 200
    /\ jobs[2].status = {"pending"}

\* C21: a timestamp of a Job record, once written, is never written again:
\* no step changes finished_at of a micro-pipeline job that has one, nor
\* created_at, started_at or finished_at of a redis-app job that has one.
C21_TimestampsWrittenOnce ==
    [][/\ \A j \in Jobs :
            hash[j].finished_at # {} => hash'[j].finished_at = hash[j].finished_at
       /\ \A j \in WJobs :
            /\ jobs[j].created_at # {} => jobs'[j].created_at = jobs[j].created_at
            /\ jobs[j].started_at # {} => jobs'[j].started_at = jobs[j].started_at
            /\ jobs[j].finished_at # {} => jobs'[j].finished_at = jobs[j].finished_at]_vars

\* C22: a Job record has an error field only if its status is failed.
C22_ErrorOnlyWhenFailed ==
    \A j \in WJobs : jobs[j].error # {} => jobs[j].status = {"failed"}

\* One job failed because its work function raised, another because its
\* done write raised.
C22_Witness ==
    \E i, j \in WJobs :
        /\ jobs[i].status = {"failed"} /\ jobs[i].error = {"work_error"}
        /\ jobs[j].status = {"failed"} /\ jobs[j].error = {"store_error"}

\* The bounds of the buckets of h whose cumulative count is at least
\* q / 100 of the total count.
Reaching(h, q) ==
    {h.buckets[i][1] : i \in {k \in 1 .. Len(h.buckets) :
                                h.buckets[k][2] * 100 >= q * SumOf(h.count)}}

\* The smallest of them, and 0 when the total count is 0.
SmallestReaching(h, q) ==
    IF SumOf(h.count) = 0 THEN 0
    ELSE CHOOSE le \in Reaching(h, q) : \A x \in Reaching(h, q) : le <= x

\* C23: after a poll, each percentile gauge is the smallest bucket bound
\* whose cumulative count, as exported, is at least q times the total count,
\* and 0 when the total count is 0; for [(1,5),(5,8),(10,10)] with total 10
\* the 50th percentile is 1.
C23_PercentileIsSmallestBound ==
    /\ \A q \in Quantiles :
         /\ sm.e2e_p[q] = SmallestReaching(sm.metrics.e2e, q)
         /\ sm.proc_p[q] = SmallestReaching(sm.metrics.proc, q)
    /\ sm.metrics.e2e = Samples(<<<<1, 5>>, <<5, 8>>, <<10, 10>>>>, <<10>>)
       => sm.e2e_p[50] = 1

\* A successful call of poll_and_update.
Polled == sm.pc = "poll" /\ sm'.pc = "sleep" /\ sm'.poll_errors = sm.poll_errors

\* The rate r is the fraction delta / elapsed.
RateIs(r, delta, elapsed) == r.den > 0 /\ elapsed > 0 /\ r.num * elapsed = delta * r.den

\* C24: the enqueue and process rates are 0 after the first successful
\* poll; after every later successful poll they are the increase of the
\* counter since the previous successful poll, clamped at zero, divided by
\* the time elapsed since then; the counters and the time a successful poll
\* observed are kept until the next successful poll.
C24_RatesFromLastSuccessfulPoll ==
    [][/\ Polled =>
            /\ sm'.last_enqueued = {get_counter(sm'.metrics.enqueued)}
            /\ sm'.last_processed = {get_counter(sm'.metrics.processed)}
            /\ sm'.last_poll_time = {now}
            /\ IF sm.last_poll_time = {}
               THEN sm'.enqueue_rate.num = 0 /\ sm'.process_rate.num = 0
               ELSE \A t \in sm.last_poll_time, e \in sm.last_enqueued,
                       p \in sm.last_processed :
                      /\ RateIs(sm'.enqueue_rate,
                                Max0(get_counter(sm'.metrics.enqueued) - e), now - t)
                      /\ RateIs(sm'.process_rate,
                                Max0(get_counter(sm'.metrics.processed) - p), now - t)
       /\ ~Polled =>
            /\ sm'.last_enqueued = sm.last_enqueued
            /\ sm'.last_processed = sm.last_processed
            /\ sm'.last_poll_time = sm.last_poll_time
            /\ sm'.enqueue_rate = sm.enqueue_rate
            /\ sm'.process_rate = sm.process_rate]_vars

\* The second successful poll came after a failed one, two intervals after
\* the first, and found the counter higher: the rate is the increase over
\* the two intervals.
C24_Witness ==
    /\ sm.pc = "sleep"
    /\ sm.poll_errors = 1
    /\ sm.last_poll_time = {2 * POLL_INTERVAL}
    /\ sm.last_enqueued = {MaxCount}
    /\ sm.enqueue_rate = Rate(MaxCount, 2 * POLL_INTERVAL)
    /\ sm.process_rate.num = 0

\* C25: the exported enqueued and processed totals never decrease; a
\* successful poll adds to each the increase of the observed counter over
\* the previously observed value, or nothing when the counter went down or
\* was not observed before, and the observed value becomes the baseline of
\* the next poll.
C25_TotalsNeverDecrease ==
    [][/\ sm'.enqueued_total >= sm.enqueued_total
       /\ sm'.processed_total >= sm.processed_total
       /\ Polled =>
            LET enqueued == get_counter(sm'.metrics.enqueued)
                processed == get_counter(sm'.metrics.processed)
            IN /\ sm'.enqueued_total = sm.enqueued_total +
                     (IF sm.last_enqueued = {} THEN 0
                      ELSE Max0(enqueued - (CHOOSE v \in sm.last_enqueued : TRUE)))
               /\ sm'.processed_total = sm.processed_total +
                     (IF sm.last_processed = {} THEN 0
                      ELSE Max0(processed - (CHOOSE v \in sm.last_processed : TRUE)))
               /\ sm'.last_enqueued = {enqueued}
               /\ sm'.last_processed = {processed}]_vars

\* The backend's enqueued counter rose to MaxCount, was reset and rose
\* again: the total kept what it had and went on from there.
C25_Witness ==
    /\ sm.pc = "sleep"
    /\ sm.last_enqueued = {1}
    /\ sm.enqueued_total = MaxCount + 1
    /\ sm.poll_errors = 0

\* C26: a poll whose fetch or parse fails adds exactly one to the
\* poll-error counter and changes nothing else of the summarizer but its
\* place in the loop, which goes on to the sleep and from there to the next
\* poll; the counter goes up in no other step, and the poller is always
\* either about to poll or about to sleep.
C26_PollErrorCountedLoopGoesOn ==
    [][/\ (sm.pc = "poll" /\ sm'.pc = "sleep" /\ sm'.poll_errors # sm.poll_errors)
          => sm' = [sm EXCEPT !.pc = "sleep", !.poll_errors = @ + 1]
       /\ sm'.poll_errors # sm.poll_errors => sm.pc = "poll" /\ sm'.pc = "sleep"
       /\ sm.pc = "sleep" /\ sm' # sm => sm' = [sm EXCEPT !.pc = "poll"]
       /\ sm'.pc \in {"poll", "sleep"}]_vars

\* After a successful poll that set a baseline and a rate, a poll failed,
\* the loop slept and polled again, and that poll failed too: the baseline,
\* the totals and the gauges are those of the successful poll.
C26_Witness ==
    /\ sm.pc = "sleep"
    /\ sm.poll_errors = 2
    /\ sm.last_poll_time = {POLL_INTERVAL}
    /\ sm.last_poll_ts = POLL_INTERVAL
    /\ sm.last_enqueued = {MaxCount}
    /\ sm.enqueued_total = MaxCount
    /\ sm.enqueue_rate = Rate(MaxCount, POLL_INTERVAL)
    /\ now = 3 * POLL_INTERVAL

\* The /process requests that carry job id j.
Forwarded(j) == {p \in PReqs : preq[p].pc # "idle" /\ JobOf(p) = j}

ProducerErrors ==
    {"redis_error", "job_already_claimed", "fetch_connection_error", "fetch_timeout",
     "fetch_http_error", "fetch_error", "fetch_exception", "empty_image_fetched",
     "fetched_too_large", "processor_unreachable", "processor_timeout",
     "processor_error", "processor_exception", "exception"}

\* produce_once returns in this step.
Returns == prod' # prod /\ prod'.pc = "start"

\* C28: every step in which produce_once returns one of its error values
\* increments the error counter, a step that counts an error either
\* returns one of these values or is the failed write of status queued, and
\* after every step the loop is inside an iteration or about to start the
\* next one.
C28_FailedIterationKeepsLoop ==
    [][/\ (Returns /\ prod'.ret \in ProducerErrors) => prod'.errors > prod.errors
       /\ prod'.errors > prod.errors
          => \/ Returns /\ prod'.ret \in ProducerErrors
             \/ prod.pc = "set_queued" /\ prod'.errors = prod.errors + 1
       /\ prod'.errors >= prod.errors
       /\ prod'.pc \in {"start", "set_queued", "send", "send_bad", "await"}]_vars

\* Two iterations failed, the last one because the processor did not
\* answer in time, and the loop is at the start of the next iteration.
C28_Witness ==
    /\ prod.pc = "start"
    /\ prod.errors = 2
    /\ prod.ret = "processor_timeout"

\* Job j was written done with its finish time and result, or failed with
\* its error.
Recorded(j) ==
    \/ jobs[j].status = {"done"} /\ jobs[j].finished_at # {} /\ jobs[j].result # {}
    \/ jobs[j].status = {"failed"} /\ jobs[j].error # {}

\* C29: with the work function of job 1 hung in a pool slot and the Store
\* reachable, every job id in the queue is eventually popped, marked
\* processing and submitted to the pool, and every other job in the pool
\* is eventually marked done (failed, if its work function raised).
C29_HungTaskDoesNotStopLoop ==
    /\ \A j \in WJobs :
         (Queued(queue, j) # {})
           ~> (jobs[j].started_at # {} /\ (pool[1][j] # "none" \/ Recorded(j)))
    /\ \A j \in WJobs \ {1} :
         (pool[1][j] \in {"running", "queued"}) ~> Recorded(j)

\* Job 1 is still running in its slot; job 2, popped after it, ran in the
\* other slot and is marked done.
C29_Witness ==
    /\ pool[1][1] = "running"
    /\ jobs[1].status = {"processing"}
    /\ jobs[2].status = {"done"}
    /\ \E t \in jobs[1].started_at, u \in jobs[2].started_at : t < u

\* C30: with the Store reachable and no worker crashing, every job in a
\* pool whose work function has returned or raised is eventually marked
\* done with finished_at and result, or failed with an error.
C30_CompletedFuturesAreDrained ==
    \A w \in Workers, j \in WJobs :
        (pool[w][j] \in {"ok", "exc"}) ~> Recorded(j)

\* Every submitted job is recorded and the queue is empty: the job popped
\* last was still running when its own submission drained the pool, so it
\* was drained after a BRPOP that timed out.
C30_Witness ==
    /\ queue = <<>>
    /\ \A j \in WJobs : gw[j].resp = 200 /\ Recorded(j)
    /\ \A w \in Workers : wk[w].pc = "brpop" /\ wk[w].fmap = {}
    /\ \E j \in WJobs : jobs[j].status = {"done"}

\* The places that hold job id j between its push and the end of its drain:
\* a position of the queue, the local job_id of a worker that popped it, an
\* entry of a worker's futures_map, the future a worker is marking failed.
Holders(j) ==
    {<<"queue", k>> : k \in Queued(queue, j)}
      \cup {<<"popped", w>> : w \in {v \in Workers : wk[v].job = j}}
      \cup {<<"tracked", w>> : w \in {v \in Workers : j \in Tracked(v)}}

\* C31: with workers taking jobs by BRPOP alone, a job id the gateway pushed
\* is held by at most one worker at a time and by none while it is still in
\* the queue; the write of processing and the submission to a pool happen
\* only for a job that is pending and in no pool, and a write of done or
\* failed only for a job that is processing, so each happens at most once
\* per job across all workers.
C31_DispatchedAtMostOnce ==
    [][\A j \in WJobs :
         /\ Cardinality(Holders(j))' <= 1
         /\ \A w \in Workers :
              /\ (wk[w].pc = "hset_processing" /\ wk[w].job = j /\ wk'[w] # wk[w])
                    => jobs[j].status = {"pending"} /\ jobs[j].started_at = {}
              /\ (pool[w][j] = "none" /\ pool'[w][j] # "none")
                    => /\ jobs[j].status = {"pending"}
                       /\ jobs'[j].status = {"processing"}
                       /\ \A v \in Workers : pool[v][j] = "none"
         /\ (jobs'[j].status = {"processing"} /\ jobs'[j] # jobs[j])
               => jobs[j].status = {"pending"}
         /\ (jobs'[j].status \in {{"done"}, {"failed"}} /\ jobs'[j] # jobs[j])
               => jobs[j].status = {"processing"}
      ]_vars

\* Two workers popped concurrently and each took a different job: one job
\* is still running in one worker's pool, the other was marked done by the
\* other worker, and the queue is empty.
C31_Witness ==
    /\ queue = <<>>
    /\ \E w, v \in Workers :
         /\ w # v
         /\ wk[w].fmap = {1} /\ pool[w][1] = "running"
         /\ jobs[1].status = {"processing"}
         /\ wk[v].fmap = {} /\ wk[v].pc = "brpop"
         /\ pool[w][2] = "none"
         /\ jobs[2].status = {"done"}

\* C32: a job id a worker removed from the queue is held by that worker
\* (in its futures_map, or in the hands of the loop turn or of the drain
\* that is working on it) or its Job record has status done or failed,
\* also when HGETALL, HSET or the pool submission fails after the pop.
C32_NoPoppedJobDropped ==
    \A j \in WJobs :
        (gw[j].resp = 200 /\ Queued(queue, j) = {})
          => \/ \E w \in Workers : wk[w].job = j \/ j \in Tracked(w)
             \/ jobs[j].status \in {{"done"}, {"failed"}}

\* C33: the step in which a /finalize request is answered with
\* invalid_base64, empty_processed_payload or payload_too_large, the first
\* step of the request that could write, leaves the Job hash and the
\* artifact files as they were.
C33_RejectedFinalizeChangesNothing ==
    [][\A f \in FReqs :
         (/\ freq[f].resp = NoResp
          /\ freq'[f].resp.body \in {"invalid_base64", "empty_processed_payload",
                                     "payload_too_large"})
           => hash' = hash /\ files' = files
      ]_vars

\* C34: the step in which a /process request that holds the lock is
\* answered with invalid_image_b64, empty_image_payload, payload_too_large
\* or invalid_image_data, the first step of the request that could write
\* the hash, leaves the status of its job as it was.
C34_RejectedProcessKeepsStatus ==
    [][\A p \in PReqs :
         (/\ preq[p].got # {}
          /\ preq[p].resp = NoResp
          /\ preq'[p].resp.body \in {"invalid_image_b64", "empty_image_payload",
                                     "payload_too_large", "invalid_image_data"})
           => hash'[preq[p].body.job].status = hash[preq[p].body.job].status
      ]_vars

\* C35: when /finalize answers 200 with status finished, the write that
\* sets finished did not fail, and the Job hash has status finished with
\* result_path equal to the path of the response.
C35_FinishedMeansStored ==
    [][\A f \in FReqs :
         (/\ freq[f].resp = NoResp
          /\ freq'[f].resp.code = 200
          /\ freq'[f].resp.body = "finished")
           => /\ ~freq[f].redis_update_failed
              /\ hash'[freq[f].body.job].status = {"finished"}
              /\ hash'[freq[f].body.job].result_path = {PathOf(freq[f].body.job)}
      ]_vars

\* C36: when /process answers 200 with status sent_to_aggregator, the
\* aggregator answered its post with 200 and finished or already_finished,
\* never with a 4xx or 5xx status, and the Job hash has status finished.
C36_SentMeansAccepted ==
    [][\A p \in PReqs :
         (/\ preq[p].resp = NoResp
          /\ preq'[p].resp.body = "sent_to_aggregator")
           => /\ \E f \in preq[p].fin :
                    /\ freq[f].resp.code = 200
                    /\ freq[f].resp.body \in {"finished", "already_finished"}
              /\ hash[preq[p].body.job].status = {"finished"}
      ]_vars

\* C37: a POST /jobs whose hash write or queue push raised, and so was
\* answered with an error, leaves no Job hash for the id it generated.
C37_FailedSubmitLeavesNoTrace ==
    \A j \in WJobs : gw[j].resp = 500 => ~Exists(j)

\* C38: the in-flight gauge of a worker is never negative, and whenever the
\* worker stands at the top of its main loop the gauge equals the number of
\* entries of futures_map, after any dispatches, drains, failed Store calls
\* and failed submissions.
C38_GaugeIsMapSize ==
    \A w \in Workers :
        /\ wk[w].in_flight >= 0
        /\ wk[w].pc = "brpop" => wk[w].in_flight = Cardinality(wk[w].fmap)

\* One worker dispatched both jobs; the done write of one raised and the
\* job was marked failed, the other is still in the map: the worker is
\* back at the top of its loop with one entry and a gauge of one.
C38_Witness ==
    \E w \in Workers :
        /\ wk[w].pc = "brpop"
        /\ wk[w].in_flight = 1
        /\ Cardinality(wk[w].fmap) = 1
        /\ \E j \in WJobs \ wk[w].fmap : jobs[j].error = {"store_error"}
        /\ \A v \in Workers \ {w} : wk[v] = IdleW

\* The jobs worker w popped, marked processing with started_at and
\* submitted, and has not yet marked done or failed.
Unfinished(w) ==
    {j \in Backlog : /\ pool[w][j] # "none"
                     /\ jobs[j].status = {"processing"}
                     /\ jobs[j].started_at # {}}

\* The tasks running in the subprocesses of worker w's pool.
Running(w) == {j \in Backlog : pool[w][j] = "running"}

\* C39: a worker never has more than WORKERS_PER_POD jobs popped and marked
\* processing but not yet marked done or failed, and it holds a popped job
\* id only while a subprocess of its pool is free to run it.
C39_ProcessingWithinPoolSize ==
    \A w \in Workers :
        /\ Cardinality(Unfinished(w)) <= WORKERS_PER_POD
        /\ wk[w].job # 0 => Cardinality(Running(w)) < WORKERS_PER_POD
====
